---- MODULE Spec2Model ----
(***************************************************************************)
(* State-machine model of luxfi/metric.                                    *)
(*                                                                         *)
(* Part 1: ContextRegistry (Register / Unregister / GatherWithContext)     *)
(*         with its per-collector goroutines, forwarders and the waiter.   *)
(*         Specification Spec.                                             *)
(* Part 2: one Counter (metricCounter, VictoriaCounter, noopCounter)       *)
(*         updated by concurrent goroutines. Specification SpecCounter.    *)
(* Part 3: the multi-namespace gatherers. Specification SpecMulti.         *)
(* Part 4: the metrics HTTP handlers and their requests.                   *)
(*         Specification SpecHandler.                                      *)
(* Part 5: one labeled vector accessed through With / WithLabelValues.     *)
(*         Specification SpecVec.                                          *)
(* Part 6: the registry's family maps: New<Kind>, Register, Gather.        *)
(*         Specification SpecNames.                                        *)
(* Part 7: one histogram, its observers and a Gather.                      *)
(*         Specification SpecHist.                                         *)
(* Part 8: the text format: EncodeText, then ParseText on the text.        *)
(*         Specification SpecText.                                         *)
(* Part 9: one summary and its reservoir of samples.                       *)
(*         Specification SpecSummary.                                      *)
(* Part 10: results of ContextRegistry.Register / Unregister, pedantic or  *)
(*         not. Specification SpecPedantic.                                *)
(* Part 11: the mutexes of one histogramVec, its registry and its          *)
(*         children. Specification SpecLocks.                              *)
(* Part 12: the counters NewCounter returns and the ones the registry      *)
(*         holds. Specification SpecHandles.                               *)
(*                                                                         *)
(* Channel capacities of the source (1024 / 256) are scaled down to the    *)
(* bounds MetricChCap / CollectorChCap so that the "buffer full" cases are *)
(* explored as well as the "buffer has room" cases.                        *)
(***************************************************************************)
EXTENDS Integers, Sequences, FiniteSets, TLC

\* ---------------------------------------------------------------- bounds
\* Number of collector IDs the registry may hand out (nextID is capped).
MaxEntries == 2
\* Metrics one Collect call sends at most.
MaxMetrics == 1
\* Scaled capacity of metricCh (make(chan prometheus.Metric, 1024)).
MetricChCap == 1
\* Scaled capacity of collectorCh (make(chan prometheus.Metric, 256)).
CollectorChCap == 1

\* The collectors a caller may register: one plain, one context-aware.
Collectors == {"plain", "ctxaware"}

\* c.(CollectorWithContext) type assertion of Register.
IsContext(c) == c = "ctxaware"

IDs == 0 .. (MaxEntries - 1)

\* A metric in flight: the entry that produced it and whether its Write fails.
Metrics == [src : IDs, bad : BOOLEAN]

VARIABLES
    \* ContextRegistry fields
    collectors,      \* map[uint64]collectorEntry: ID -> collector, "none" when absent
    nextID,          \* next collector ID
    muReaders,       \* number of read locks held on r.mu (writers are atomic steps)
    \* context passed to GatherWithContext
    ctxErr,          \* ctx.Err(): "nil", "Canceled" or "DeadlineExceeded"
    ctxAtCall,       \* ctx.Err() at the moment GatherWithContext was called
    expiredMid,      \* the deadline expired while a snapshot collector had not finished
    \* GatherWithContext, main goroutine
    pc,              \* position of the caller inside GatherWithContext
    snapshot,        \* the copied collector entries (ID -> collector, "none" when absent)
    toLaunch,        \* entries the launch loop has not reached yet
    metricCh,        \* buffered content of metricCh
    metricChClosed,
    errCh,           \* number of errors buffered in errCh
    errChClosed,
    wg,              \* sync.WaitGroup counter
    cur,             \* metric received by the range loop, before the ctx poll
    fams,            \* metricFamilies: per source entry, metrics appended so far
    retErr,          \* returned error: "nil", ctx error, "panic", "write"
    retNil,          \* TRUE when the returned []*dto.MetricFamily is nil
    retFams,         \* returned families (as fams) when not nil
    \* the goroutine per collector entry
    gpc,             \* position of the collector goroutine
    emitted,         \* metrics Collect has sent on collectorCh
    collectorCh,     \* buffered content of each collectorCh
    collectorChClosed,
    doneClosed,      \* close(done) executed by the forwarder
    \* the forwarder goroutine per collector entry
    fpc,
    fcur,            \* metric the forwarder holds between receive and send
    \* the goroutine that waits on wg
    wpc,
    \* unrecovered runtime panic (the process dies)
    crashed,
    \* one Counter shared by the goroutines of Workers
    cImpl,           \* "metricCounter", "VictoriaCounter" or "noopCounter"
    cValue,          \* the counter's stored value, in units of 1/2
    cPc,             \* per goroutine: "idle", "load", "cas" or "store"
    cArg,            \* per goroutine: the increment of the call in progress (1/2 units)
    cOld,            \* per goroutine: the value it loaded
    cCalls,          \* per goroutine: Inc/Add calls made so far
    cSum,            \* sum of the increments of all calls made (1/2 units)
    cNeg,            \* some call so far passed a negative argument to Add
    \* one multi-namespace gatherer
    mImpl,           \* "multiGathererWithContext" or "multiGatherer"
    mGatherers,      \* gatherers map: namespace -> inner gatherer, "none" when absent
    mReaders,        \* read locks held on the gatherer's RWMutex
    mCtxErr,         \* ctx.Err() of the context passed to GatherWithContext
    mPc,             \* position of the Gather call
    mSnap,           \* the map the Gather loop ranges over
    mTodo,           \* namespaces the loop has not visited yet
    mCur,            \* namespace whose inner gatherer is being called
    mResult,         \* result slice built so far (sequence of family names)
    mRetErr,         \* returned error
    mRetNil,         \* TRUE when the returned slice is nil
    mLast,           \* the last Register / Deregister call: namespace, entry found, result
    mGone,           \* namespaces whose last Register / Deregister call was a Deregister
    mGoneAtCall      \* the same, at the moment Gather was called

VARIABLES
    \* one metrics HTTP handler and the requests it serves
    hImpl,           \* "HandlerForContext" or "HandlerForWithOpts"
    hMaxInFlight,    \* opts.MaxRequestsInFlight (0: no limit)
    hTimeout,        \* opts.Timeout in seconds (0: not configured)
    hErrorHandling,  \* opts.ErrorHandling
    hLimiter,        \* number of tokens buffered in requestLimiter
    hPc,             \* per request: "idle", "arrived", "gathering" or "done"
    hHeader,         \* per request: value of the scrape-timeout header
    hDeadline,       \* per request: timeout given to context.WithTimeout (0: none)
    hAtArrival,      \* per request: tokens in requestLimiter when it arrived
    hHolds,          \* per request: it holds a requestLimiter token
    hExpired,        \* per request: ctx.Err() # nil (its deadline has passed)
    hLate,           \* per request: the deadline passed before gathering completed
    hGatherCalled,   \* per request: the gatherer was invoked
    hGathered,       \* per request: what the gatherer returned
    hStatus,         \* per request: HTTP status of the response (0: none yet)
    hBodyFams,       \* per request: gathered families written to the body
    hBodyErrs,       \* per request: synthetic error metrics written to the body
    hExit            \* per request: the path on which the handler function ended

VARIABLES
    \* one labeled vector and the goroutines that access it
    vImpl,           \* "counterVec" or "highPerfCounterVec"
    vMu,             \* v.mu: 0 when free, else the goroutine that holds it
    vCounters,       \* v.counters: set of <<key, instance>>
    vRegistry,       \* the owning registry's entries for the vector: <<key, instance>>
    vNextInst,       \* identity of the next primitive newCounter allocates
    vCreated,        \* every <<key, instance>> ever created
    vReturned,       \* every <<key, instance>> ever returned by a call
    vPc,             \* per goroutine: "idle", "lock", "lookup" or "store"
    vKey,            \* per goroutine: key of the call in progress
    vInst,           \* per goroutine: the primitive it created
    vCalls,          \* per goroutine: calls made so far
    vVia,            \* per goroutine: "With" or "WithLabelValues" while in a call
    vArg,            \* per goroutine: the label assignment the call denotes
    vResolved        \* every <<via, assignment, instance>> a call has returned

VARIABLES
    \* one registry (part_015) and its caller
    rFamilies,       \* counters/gauges/histograms/summaries: <<type, name>> -> primitive (0: absent)
    rRegistered,     \* registered: name -> type recorded by Register ("none": absent)
    rPrims,          \* the primitives created so far: identity -> type and name
    rNextPrim,       \* identity of the next primitive
    rGathered,       \* families returned by the last Gather: set of <<type, name>>
    rOrder,          \* the slice the last Gather returned, while nothing was called since
    rPrevOrder,      \* the slice the Gather just before the last one returned
    rRuns,           \* Gather calls in a row since the last other call (2: two or more)
    rLast            \* the last call: operation, and for Register its outcome

VARIABLES
    \* one metricHistogram, its observers and a Gather
    hgBuckets,       \* vh.buckets: upper boundaries (tenths)
    hgBucketCounts,  \* vh.bucketCounts: raw counts, the last one for +Inf
    hgCount,         \* vh.count
    hgSum,           \* vh.sum (tenths)
    hgWriter,        \* vh.mu: the goroutine holding the write lock, 0 when none
    hgReaders,       \* vh.mu: read locks held
    hgPc,            \* per goroutine: "idle", "lock", "bucket", "count" or "sum"
    hgVal,           \* per goroutine: argument of the Observe call in progress
    hgCalls,         \* Observe calls made so far
    hgObserved,      \* arguments of the completed Observe calls, in completion order
    hgRegReaders,    \* hpr.mu: read locks held by Gather
    hgGatherPc,      \* position of registry.Gather
    hgSnap,           \* the Metric the last ToMetric call returned
    \* the text format: a family set, its encoded text, ParseText on that text
    tFamilies,       \* the families given to EncodeText
    tText,           \* the text as a sequence of lines
    tBad,            \* position of the malformed line that was inserted (0: none)
    tPc,             \* "start", "encoded", "scanning", "returned" or "panicked"
    tPos,            \* lines the scanner has yielded
    tParsed,         \* ParseText's families map: name -> family
    \* one metricSummary
    sSamples,        \* vs.samples
    sSampleIdx,      \* vs.sampleIdx
    sCount,          \* vs.count
    sSum,            \* vs.sum
    sObserved        \* the values passed to Observe, oldest first

regVars == <<collectors, nextID, muReaders>>
ctxVars == <<ctxErr, ctxAtCall, expiredMid>>
mainVars == <<pc, snapshot, toLaunch, cur, fams, retErr, retNil, retFams>>
chanVars == <<metricCh, metricChClosed, errCh, errChClosed, wg>>
colVars == <<gpc, emitted, collectorCh, collectorChClosed, doneClosed>>
fwdVars == <<fpc, fcur>>
gatherVars == <<ctxVars, mainVars, chanVars, colVars, fwdVars, wpc, crashed>>
counterVars == <<cImpl, cValue, cPc, cArg, cOld, cCalls, cSum, cNeg>>
multiVars == <<mImpl, mGatherers, mReaders, mCtxErr, mPc, mSnap, mTodo, mCur, mResult,
               mRetErr, mRetNil, mLast, mGone, mGoneAtCall>>
handlerVars == <<hImpl, hMaxInFlight, hTimeout, hErrorHandling, hLimiter, hPc, hHeader,
                 hDeadline, hAtArrival, hHolds, hExpired, hLate, hGatherCalled, hGathered,
                 hStatus, hBodyFams, hBodyErrs, hExit>>
vecVars == <<vImpl, vMu, vCounters, vRegistry, vNextInst, vCreated, vReturned, vPc, vKey,
             vInst, vCalls, vVia, vArg, vResolved>>
namesVars == <<rFamilies, rRegistered, rPrims, rNextPrim, rGathered, rLast,
              rOrder, rPrevOrder, rRuns>>
histVars == <<hgBuckets, hgBucketCounts, hgCount, hgSum, hgWriter, hgReaders, hgPc, hgVal,
              hgCalls, hgObserved, hgRegReaders, hgGatherPc, hgSnap>>
VARIABLES
    \* one ContextRegistry and the results of the calls made on it
    pPedantic,       \* r.pedantic
    pCollectors,     \* r.collectors: ID -> collector, "none" when absent
    pNextID,         \* r.nextID
    pGone,           \* collectors whose last Register / Unregister was an Unregister that returned true
    pLast            \* the last call: operation, collector, result, map and pGone before it

VARIABLES
    \* the mutexes of one histogramVec, its registry and its children
    lPc,             \* per goroutine: its position inside the call it makes
    lKey,            \* per goroutine: the child (key) its call is about
    lTodo,           \* per goroutine: entries its Gather has not visited yet
    lChildren,       \* keys whose child exists (v.histograms, hpr.histograms[name])
    lVecMu,          \* v.mu: 0 when free, else the goroutine that holds it
    lRegWriter,      \* hpr.mu: the goroutine that holds the write lock, or 0
    lRegReaders,     \* hpr.mu: goroutines that hold a read lock
    lPrimWriter,     \* per child: vh.mu write lock holder, or 0
    lPrimReaders     \* per child: goroutines that hold a read lock on vh.mu

VARIABLES
    \* the counters NewCounter has returned and the registry behind it
    xImpl,           \* "registry" or "HighPerfMetricsFactory"
    xStored,         \* per name: the counter the registry's map holds (0: none)
    xNext,           \* identity of the next counter NewCounter allocates
    xName,           \* per counter: its name ("none" while not created)
    xValue,          \* per counter: its value
    xGathered,       \* <<name, counter, value>> the last Gather read
    xLast            \* the last call: "none", "New", "Inc" or "Gather"

textVars == <<tFamilies, tText, tBad, tPc, tPos, tParsed>>
pedVars == <<pPedantic, pCollectors, pNextID, pGone, pLast>>
lockVars == <<lPc, lKey, lTodo, lChildren, lVecMu, lRegWriter, lRegReaders, lPrimWriter,
              lPrimReaders>>
handleVars == <<xImpl, xStored, xNext, xName, xValue, xGathered, xLast>>
restVars == <<pedVars, lockVars, handleVars>>
sumVars == <<sSamples, sSampleIdx, sCount, sSum, sObserved>>
extVars == <<handlerVars, vecVars, namesVars, histVars, textVars, sumVars, restVars>>
vars == <<regVars, gatherVars, counterVars, multiVars, extVars>>

NoMetric == [src |-> 0, bad |-> FALSE]
EmptyFams == [i \in IDs |-> 0]
NoEntries == [i \in IDs |-> "none"]
Entries(m) == {i \in IDs : m[i] # "none"}

\* NewContextRegistry, and a context that may already be cancelled or expired.
InitRegistry ==
    /\ collectors = NoEntries
    /\ nextID = 0
    /\ muReaders = 0

InitGather ==
    /\ ctxErr \in {"nil", "Canceled", "DeadlineExceeded"}
    /\ ctxAtCall = "nil"
    /\ expiredMid = FALSE
    /\ pc = "idle"
    /\ snapshot = NoEntries
    /\ toLaunch = {}
    /\ metricCh = <<>>
    /\ metricChClosed = FALSE
    /\ errCh = 0
    /\ errChClosed = FALSE
    /\ wg = 0
    /\ cur = NoMetric
    /\ fams = EmptyFams
    /\ retErr = "nil"
    /\ retNil = TRUE
    /\ retFams = EmptyFams
    /\ gpc = [i \in IDs |-> "unlaunched"]
    /\ emitted = [i \in IDs |-> 0]
    /\ collectorCh = [i \in IDs |-> <<>>]
    /\ collectorChClosed = [i \in IDs |-> FALSE]
    /\ doneClosed = [i \in IDs |-> FALSE]
    /\ fpc = [i \in IDs |-> "none"]
    /\ fcur = [i \in IDs |-> NoMetric]
    /\ wpc = "none"
    /\ crashed = "none"

Alive == crashed = "none"

\* A step of the ContextRegistry part: the process is alive, and the counter
\* and the multi-namespace gatherer are left alone.
RegistryStep == Alive /\ UNCHANGED <<counterVars, multiVars, extVars>>

\* ------------------------------------------------------------- registry
\* ContextRegistry.Register (non-pedantic registry): takes r.mu.Lock, stores
\* the entry under nextID and increments nextID.
Register(c) ==
    /\ RegistryStep
    /\ muReaders = 0
    /\ nextID < MaxEntries
    /\ collectors' = [collectors EXCEPT ![nextID] = c]
    /\ nextID' = nextID + 1
    /\ UNCHANGED <<muReaders, gatherVars>>

\* ContextRegistry.Unregister: takes r.mu.Lock and deletes the first entry
\* (in map order, i.e. any) holding c; a miss changes nothing.
Unregister(c) ==
    /\ RegistryStep
    /\ muReaders = 0
    /\ \E i \in Entries(collectors) :
          /\ collectors[i] = c
          /\ collectors' = [collectors EXCEPT ![i] = "none"]
    /\ UNCHANGED <<nextID, muReaders, gatherVars>>

\* -------------------------------------------------- GatherWithContext
\* r.mu.RLock() at the head of GatherWithContext (the call itself).
GatherRLock ==
    /\ RegistryStep
    /\ pc = "idle"
    /\ muReaders' = muReaders + 1
    /\ ctxAtCall' = ctxErr
    /\ pc' = "locked"
    /\ UNCHANGED <<collectors, nextID, ctxErr, expiredMid, snapshot, toLaunch, cur,
                   fams, retErr, retNil, retFams, chanVars, colVars, fwdVars, wpc,
                   crashed>>

\* Copy r.collectors into the local slice, then r.mu.RUnlock().
GatherSnapshot ==
    /\ RegistryStep
    /\ pc = "locked"
    /\ snapshot' = collectors
    /\ toLaunch' = Entries(collectors)
    /\ muReaders' = muReaders - 1
    /\ pc' = "check"
    /\ UNCHANGED <<collectors, nextID, ctxVars, cur, fams, retErr, retNil, retFams,
                   chanVars, colVars, fwdVars, wpc, crashed>>

\* return nil, err
ReturnNil(err) ==
    /\ pc' = "returned"
    /\ retErr' = err
    /\ retNil' = TRUE
    /\ retFams' = EmptyFams

\* GatherCheck without the "ctx.Err() != nil" test before the channels are made.
GatherCheckNoCtxTest ==
    /\ RegistryStep
    /\ pc = "check"
    /\ pc' = "launch"
    /\ UNCHANGED <<regVars, ctxVars, snapshot, toLaunch, cur, fams, retErr, retNil,
                   retFams, chanVars, colVars, fwdVars, wpc, crashed>>

\* "if ctx.Err() != nil { return nil, ctx.Err() }", else make metricCh / errCh.
GatherCheck ==
    /\ RegistryStep
    /\ pc = "check"
    /\ IF ctxErr # "nil"
          THEN ReturnNil(ctxErr)
          ELSE /\ pc' = "launch"
               /\ UNCHANGED <<retErr, retNil, retFams>>
    /\ UNCHANGED <<regVars, ctxVars, snapshot, toLaunch, cur, fams, chanVars,
                   colVars, fwdVars, wpc, crashed>>

\* One iteration of "for _, entry := range collectors": the ctx check, then
\* wg.Add(1) and go func(e) {...}; the goroutine creates collectorCh and done
\* and starts its forwarder before it calls Collect.
GatherLaunch(e) ==
    /\ RegistryStep
    /\ pc = "launch"
    /\ e \in toLaunch
    /\ IF ctxErr # "nil"
          THEN /\ metricChClosed' = TRUE
               /\ ReturnNil(ctxErr)
               /\ UNCHANGED <<toLaunch, wg, gpc, fpc>>
          ELSE /\ toLaunch' = toLaunch \ {e}
               /\ wg' = wg + 1
               /\ gpc' = [gpc EXCEPT ![e] = "collecting"]
               /\ fpc' = [fpc EXCEPT ![e] = "recv"]
               /\ UNCHANGED <<pc, retErr, retNil, retFams, metricChClosed>>
    /\ UNCHANGED <<regVars, ctxVars, snapshot, cur, fams, metricCh, errCh,
                   errChClosed, emitted, collectorCh, collectorChClosed, doneClosed,
                   fcur, wpc, crashed>>

\* The launch loop is over: go func() { wg.Wait(); close(metricCh); close(errCh) }()
\* and the caller enters "for metric := range metricCh".
GatherStartWaiter ==
    /\ RegistryStep
    /\ pc = "launch"
    /\ toLaunch = {}
    /\ wpc' = "wait"
    /\ pc' = "range"
    /\ UNCHANGED <<regVars, ctxVars, snapshot, toLaunch, cur, fams, retErr, retNil,
                   retFams, chanVars, colVars, fwdVars, crashed>>

\* "for metric := range metricCh": receive the head, or leave the loop when
\* the channel is closed and drained; blocks while it is empty and open.
GatherRange ==
    /\ RegistryStep
    /\ pc = "range"
    /\ \/ /\ Len(metricCh) > 0
          /\ cur' = Head(metricCh)
          /\ metricCh' = Tail(metricCh)
          /\ pc' = "poll"
       \/ /\ Len(metricCh) = 0
          /\ metricChClosed
          /\ pc' = "errcheck"
          /\ UNCHANGED <<cur, metricCh>>
    /\ UNCHANGED <<regVars, ctxVars, snapshot, toLaunch, fams, retErr, retNil,
                   retFams, metricChClosed, errCh, errChClosed, wg, colVars,
                   fwdVars, wpc, crashed>>

\* Loop body: select { case <-ctx.Done(): return nil, ctx.Err(); default: },
\* then metric.Write (an error returns), then append to the metric's family.
GatherPoll ==
    /\ RegistryStep
    /\ pc = "poll"
    /\ IF ctxErr # "nil"
          THEN ReturnNil(ctxErr) /\ UNCHANGED fams
          ELSE IF cur.bad
                  THEN ReturnNil("write") /\ UNCHANGED fams
                  ELSE /\ fams' = [fams EXCEPT ![cur.src] = @ + 1]
                       /\ pc' = "range"
                       /\ UNCHANGED <<retErr, retNil, retFams>>
    /\ UNCHANGED <<regVars, ctxVars, snapshot, toLaunch, cur, chanVars, colVars,
                   fwdVars, wpc, crashed>>

\* GatherErrCheck that always takes the default case of the select on errCh.
GatherErrCheckDefaultOnly ==
    /\ RegistryStep
    /\ pc = "errcheck"
    /\ pc' = "returned"
    /\ retErr' = "nil"
    /\ retNil' = FALSE
    /\ retFams' = fams
    /\ UNCHANGED <<regVars, ctxVars, snapshot, toLaunch, cur, fams, chanVars, colVars,
                   fwdVars, wpc, crashed>>

\* select { case err := <-errCh: if err != nil { return nil, err }; default: }
\* and then the sorted result with a nil error. A buffered error is always
\* ready; a closed empty errCh yields the nil error.
GatherErrCheck ==
    /\ RegistryStep
    /\ pc = "errcheck"
    /\ IF errCh > 0
          THEN /\ errCh' = errCh - 1
               /\ ReturnNil("panic")
          ELSE /\ pc' = "returned"
               /\ retErr' = "nil"
               /\ retNil' = FALSE
               /\ retFams' = fams
               /\ UNCHANGED errCh
    /\ UNCHANGED <<regVars, ctxVars, snapshot, toLaunch, cur, fams, metricCh,
                   metricChClosed, errChClosed, wg, colVars, fwdVars, wpc, crashed>>

MainNext ==
    \/ GatherRLock
    \/ GatherSnapshot
    \/ GatherCheck
    \/ \E e \in IDs : GatherLaunch(e)
    \/ GatherStartWaiter
    \/ GatherRange
    \/ GatherPoll
    \/ GatherErrCheck

\* ------------------------------------------- collector goroutine (per entry)
Unfinished(e) == gpc[e] \in {"unlaunched", "collecting"}

\* Collect / CollectWithContext sends one metric on collectorCh ("ch <- metric");
\* the send blocks while the buffer is full.
CollectEmit(e, m) ==
    /\ RegistryStep
    /\ gpc[e] = "collecting"
    /\ m.src = e
    /\ emitted[e] < MaxMetrics
    /\ Len(collectorCh[e]) < CollectorChCap
    /\ collectorCh' = [collectorCh EXCEPT ![e] = Append(@, m)]
    /\ emitted' = [emitted EXCEPT ![e] = @ + 1]
    /\ UNCHANGED <<regVars, ctxVars, mainVars, chanVars, gpc, collectorChClosed,
                   doneClosed, fwdVars, wpc, crashed>>

\* e.collector.Collect(collectorCh) / cwc.CollectWithContext(ctx, collectorCh)
\* returns, and the goroutine executes close(collectorCh).
CollectReturn(e) ==
    /\ RegistryStep
    /\ gpc[e] = "collecting"
    /\ collectorChClosed' = [collectorChClosed EXCEPT ![e] = TRUE]
    /\ gpc' = [gpc EXCEPT ![e] = "waitdone"]
    /\ UNCHANGED <<regVars, ctxVars, mainVars, chanVars, emitted, collectorCh,
                   doneClosed, fwdVars, wpc, crashed>>

\* A context-aware collector polls ctx.Done() and returns early; then
\* close(collectorCh) as above.
CollectCtxDone(e) ==
    /\ RegistryStep
    /\ gpc[e] = "collecting"
    /\ IsContext(snapshot[e])
    /\ ctxErr # "nil"
    /\ collectorChClosed' = [collectorChClosed EXCEPT ![e] = TRUE]
    /\ gpc' = [gpc EXCEPT ![e] = "waitdone"]
    /\ UNCHANGED <<regVars, ctxVars, mainVars, chanVars, emitted, collectorCh,
                   doneClosed, fwdVars, wpc, crashed>>

\* Collect panics: the deferred recover() runs and sends the error on errCh
\* (capacity len(collectors)), then the deferred wg.Done() runs; collectorCh
\* is not closed on this path.
CollectPanic(e) ==
    /\ RegistryStep
    /\ gpc[e] = "collecting"
    /\ errCh < Cardinality(Entries(snapshot))
    /\ IF errChClosed
          THEN crashed' = "send on closed errCh" /\ UNCHANGED <<errCh, gpc, wg>>
          ELSE /\ errCh' = errCh + 1
               /\ wg' = wg - 1
               /\ gpc' = [gpc EXCEPT ![e] = "panicked"]
               /\ UNCHANGED crashed
    /\ UNCHANGED <<regVars, ctxVars, mainVars, metricCh, metricChClosed, errChClosed,
                   emitted, collectorCh, collectorChClosed, doneClosed, fwdVars, wpc>>

\* "<-done" (blocks until the forwarder closed it), then the deferred wg.Done().
GoroutineExit(e) ==
    /\ RegistryStep
    /\ gpc[e] = "waitdone"
    /\ doneClosed[e]
    /\ wg' = wg - 1
    /\ gpc' = [gpc EXCEPT ![e] = "exited"]
    /\ UNCHANGED <<regVars, ctxVars, mainVars, metricCh, metricChClosed, errCh,
                   errChClosed, emitted, collectorCh, collectorChClosed, doneClosed,
                   fwdVars, wpc, crashed>>

\* ------------------------------------------------ forwarder (per entry)
\* "for metric := range collectorCh": receive, or close(done) at the end.
ForwardRecv(e) ==
    /\ RegistryStep
    /\ fpc[e] = "recv"
    /\ \/ /\ Len(collectorCh[e]) > 0
          /\ fcur' = [fcur EXCEPT ![e] = Head(collectorCh[e])]
          /\ collectorCh' = [collectorCh EXCEPT ![e] = Tail(@)]
          /\ fpc' = [fpc EXCEPT ![e] = "send"]
          /\ UNCHANGED doneClosed
       \/ /\ Len(collectorCh[e]) = 0
          /\ collectorChClosed[e]
          /\ doneClosed' = [doneClosed EXCEPT ![e] = TRUE]
          /\ fpc' = [fpc EXCEPT ![e] = "exited"]
          /\ UNCHANGED <<fcur, collectorCh>>
    /\ UNCHANGED <<regVars, ctxVars, mainVars, chanVars, gpc, emitted,
                   collectorChClosed, wpc, crashed>>

\* A forwarder whose ctx.Done() case goes on with the next metric instead of
\* returning.
ForwardSendLossy(e) ==
    /\ RegistryStep
    /\ fpc[e] = "send"
    /\ \/ /\ metricChClosed
          /\ crashed' = "send on closed channel"
          /\ UNCHANGED <<metricCh, fpc>>
       \/ /\ ~metricChClosed
          /\ Len(metricCh) < MetricChCap
          /\ metricCh' = Append(metricCh, fcur[e])
          /\ fpc' = [fpc EXCEPT ![e] = "recv"]
          /\ UNCHANGED crashed
       \/ /\ ctxErr # "nil"
          /\ fpc' = [fpc EXCEPT ![e] = "recv"]
          /\ UNCHANGED <<metricCh, crashed>>
    /\ UNCHANGED <<regVars, ctxVars, mainVars, metricChClosed, errCh, errChClosed,
                   wg, colVars, fcur, wpc>>

\* select { case metricCh <- metric: ; case <-ctx.Done(): return }
\* Any ready case may be chosen. A send on a closed channel is ready and
\* panics; nothing recovers a panic of the forwarder goroutine.
ForwardSend(e) ==
    /\ RegistryStep
    /\ fpc[e] = "send"
    /\ \/ /\ metricChClosed
          /\ crashed' = "send on closed channel"
          /\ UNCHANGED <<metricCh, fpc>>
       \/ /\ ~metricChClosed
          /\ Len(metricCh) < MetricChCap
          /\ metricCh' = Append(metricCh, fcur[e])
          /\ fpc' = [fpc EXCEPT ![e] = "recv"]
          /\ UNCHANGED crashed
       \/ /\ ctxErr # "nil"
          /\ fpc' = [fpc EXCEPT ![e] = "returned"]
          /\ UNCHANGED <<metricCh, crashed>>
    /\ UNCHANGED <<regVars, ctxVars, mainVars, metricChClosed, errCh, errChClosed,
                   wg, colVars, fcur, wpc>>

\* ------------------------------------------------------------- waiter
\* wg.Wait() returns when the counter is zero; then close(metricCh).
WaiterCloseMetricCh ==
    /\ RegistryStep
    /\ wpc = "wait"
    /\ wg = 0
    /\ IF metricChClosed
          THEN crashed' = "close of closed channel" /\ UNCHANGED <<metricChClosed, wpc>>
          ELSE metricChClosed' = TRUE /\ wpc' = "closeErrCh" /\ UNCHANGED crashed
    /\ UNCHANGED <<regVars, ctxVars, mainVars, metricCh, errCh, errChClosed, wg,
                   colVars, fwdVars>>

\* close(errCh)
WaiterCloseErrCh ==
    /\ RegistryStep
    /\ wpc = "closeErrCh"
    /\ errChClosed' = TRUE
    /\ wpc' = "exited"
    /\ UNCHANGED <<regVars, ctxVars, mainVars, metricCh, metricChClosed, errCh, wg,
                   colVars, fwdVars, crashed>>

\* ------------------------------------------------------------ context
Collecting == pc \in {"launch", "range", "poll"}

\* The deadline of ctx passes.
DeadlineExpire ==
    /\ RegistryStep
    /\ ctxErr = "nil"
    /\ ctxErr' = "DeadlineExceeded"
    /\ expiredMid' = (Collecting /\ \E e \in Entries(snapshot) : Unfinished(e))
    /\ UNCHANGED <<regVars, ctxAtCall, mainVars, chanVars, colVars, fwdVars, wpc,
                   crashed>>

\* The caller cancels ctx.
Cancel ==
    /\ RegistryStep
    /\ ctxErr = "nil"
    /\ ctxErr' = "Canceled"
    /\ UNCHANGED <<regVars, ctxAtCall, expiredMid, mainVars, chanVars, colVars,
                   fwdVars, wpc, crashed>>

\* ------------------------------------------------------ specification
CollectorNext ==
    \E e \in IDs :
       \/ \E m \in Metrics : CollectEmit(e, m)
       \/ CollectReturn(e)
       \/ CollectCtxDone(e)
       \/ CollectPanic(e)

\* Steps of the goroutines GatherWithContext starts, other than the
\* collector's own code.
InternalNext ==
    \/ \E e \in IDs :
          \/ GoroutineExit(e)
          \/ ForwardRecv(e)
          \/ ForwardSend(e)
    \/ WaiterCloseMetricCh
    \/ WaiterCloseErrCh

RegistryNext == \E c \in Collectors : Register(c) \/ Unregister(c)

ContextNext == DeadlineExpire \/ Cancel

Next ==
    \/ RegistryNext
    \/ MainNext
    \/ CollectorNext
    \/ InternalNext
    \/ ContextNext

\* ===================================================================
\* Part 2: one Counter updated by concurrent goroutines.
\* Values are counted in units of 1/2, so that Add(0.5) and Add(1.5) are inputs.
\* ===================================================================
\* Goroutines that call Inc / Add.
NumWorkers == 2
\* Calls each goroutine makes at most.
MaxCalls == 2

Workers == 1 .. NumWorkers
One == 2
\* Arguments of Add: 0.5, 1 and 1.5, and -1; Add takes any float64 and no
\* implementation checks the sign of its argument.
AddValues == {-2, 1, 2, 3}
CounterImpls == {"metricCounter", "VictoriaCounter", "noopCounter"}

\* uint64(val) of VictoriaCounter.Add: the fraction is dropped. A negative val
\* is outside uint64 and the conversion's result depends on the platform: 0
\* where the conversion saturates, 2^64 - |val| where it goes through int64,
\* and adding that is subtracting |val| modulo 2^64. (-1 is the only negative
\* argument and has no fraction.)
TruncUint64(v) == IF v >= 0 THEN {(v \div One) * One} ELSE {0, v}

\* Get(): metricCounter decodes the stored bits, VictoriaCounter converts its
\* uint64, noopCounter returns its field.
CounterGet == cValue

InitCounter ==
    /\ cImpl \in CounterImpls
    /\ cValue = 0
    /\ cPc = [w \in Workers |-> "idle"]
    /\ cArg = [w \in Workers |-> 0]
    /\ cOld = [w \in Workers |-> 0]
    /\ cCalls = [w \in Workers |-> 0]
    /\ cSum = 0
    /\ cNeg = FALSE

IdleCounter ==
    /\ cImpl = "metricCounter"
    /\ cValue = 0
    /\ cPc = [w \in Workers |-> "idle"]
    /\ cArg = [w \in Workers |-> 0]
    /\ cOld = [w \in Workers |-> 0]
    /\ cCalls = [w \in Workers |-> 0]
    /\ cSum = 0
    /\ cNeg = FALSE

CounterStep == UNCHANGED <<regVars, gatherVars, multiVars, extVars>>

\* A goroutine calls Add(v) (Inc() is Add(1)) on a metricCounter or a
\* noopCounter: the call is entered, nothing is read yet.
CounterCall(w, v) ==
    /\ CounterStep
    /\ cImpl \in {"metricCounter", "noopCounter"}
    /\ cPc[w] = "idle"
    /\ cCalls[w] < MaxCalls
    /\ cCalls' = [cCalls EXCEPT ![w] = @ + 1]
    /\ cSum' = cSum + v
    /\ cNeg' = (cNeg \/ v < 0)
    /\ cArg' = [cArg EXCEPT ![w] = v]
    /\ cPc' = [cPc EXCEPT ![w] = "load"]
    /\ UNCHANGED <<cImpl, cValue, cOld>>

\* metricCounter.Add: oldBits := atomic.LoadUint64(&vc.value)
MetricCounterLoad(w) ==
    /\ CounterStep
    /\ cImpl = "metricCounter"
    /\ cPc[w] = "load"
    /\ cOld' = [cOld EXCEPT ![w] = cValue]
    /\ cPc' = [cPc EXCEPT ![w] = "cas"]
    /\ UNCHANGED <<cImpl, cValue, cArg, cCalls, cSum, cNeg>>

\* metricCounter.Add: atomic.CompareAndSwapUint64(&vc.value, oldBits, newBits);
\* success returns, failure goes round the loop.
MetricCounterCAS(w) ==
    /\ CounterStep
    /\ cImpl = "metricCounter"
    /\ cPc[w] = "cas"
    /\ IF cValue = cOld[w]
          THEN /\ cValue' = cOld[w] + cArg[w]
               /\ cPc' = [cPc EXCEPT ![w] = "idle"]
          ELSE /\ cPc' = [cPc EXCEPT ![w] = "load"]
               /\ UNCHANGED cValue
    /\ UNCHANGED <<cImpl, cArg, cOld, cCalls, cSum, cNeg>>

\* VictoriaCounter.Inc: atomic.AddUint64(&vc.value, 1)
VictoriaCounterInc(w) ==
    /\ CounterStep
    /\ cImpl = "VictoriaCounter"
    /\ cPc[w] = "idle"
    /\ cCalls[w] < MaxCalls
    /\ cCalls' = [cCalls EXCEPT ![w] = @ + 1]
    /\ cSum' = cSum + One
    /\ UNCHANGED cNeg
    /\ cValue' = cValue + One
    /\ UNCHANGED <<cImpl, cPc, cArg, cOld>>

\* VictoriaCounter.Add: atomic.AddUint64(&vc.value, uint64(val)). The values
\* of the model stay below 2^64; a subtraction that would wrap below zero is
\* left out.
VictoriaCounterAdd(w, v) ==
    /\ CounterStep
    /\ cImpl = "VictoriaCounter"
    /\ cPc[w] = "idle"
    /\ cCalls[w] < MaxCalls
    /\ cCalls' = [cCalls EXCEPT ![w] = @ + 1]
    /\ cSum' = cSum + v
    /\ cNeg' = (cNeg \/ v < 0)
    /\ \E d \in TruncUint64(v) :
          /\ cValue + d >= 0
          /\ cValue' = cValue + d
    /\ UNCHANGED <<cImpl, cPc, cArg, cOld>>

\* noopCounter.Inc / Add, "n.value += v" without synchronisation: the read ...
NoopCounterLoad(w) ==
    /\ CounterStep
    /\ cImpl = "noopCounter"
    /\ cPc[w] = "load"
    /\ cOld' = [cOld EXCEPT ![w] = cValue]
    /\ cPc' = [cPc EXCEPT ![w] = "store"]
    /\ UNCHANGED <<cImpl, cValue, cArg, cCalls, cSum, cNeg>>

\* ... and the write of "n.value += v".
NoopCounterStore(w) ==
    /\ CounterStep
    /\ cImpl = "noopCounter"
    /\ cPc[w] = "store"
    /\ cValue' = cOld[w] + cArg[w]
    /\ cPc' = [cPc EXCEPT ![w] = "idle"]
    /\ UNCHANGED <<cImpl, cArg, cOld, cCalls, cSum, cNeg>>

CounterNext ==
    \E w \in Workers :
       \/ \E v \in AddValues : CounterCall(w, v)
       \/ MetricCounterLoad(w)
       \/ MetricCounterCAS(w)
       \/ VictoriaCounterInc(w)
       \/ \E v \in AddValues : VictoriaCounterAdd(w, v)
       \/ NoopCounterLoad(w)
       \/ NoopCounterStore(w)

\* ===================================================================
\* Part 3: the multi-namespace gatherers (multiGathererWithContext,
\* multiGatherer, prefixGatherer): Register, Deregister and one Gather.
\* A family name is a sequence of parts; namespace + "_" + name is <<ns>> \o name.
\* ===================================================================
Namespaces == {"a", "b"}
InnerGatherers == {"g1", "g2"}
MultiImpls == {"multiGathererWithContext", "multiGatherer", "prefixGatherer"}

\* Families the inner gatherers return from a successful Gather.
\* (sorted by name, as a registry returns them).
FamiliesOf(g) == IF g = "g1" THEN << <<"err">>, <<"req">> >> ELSE << <<"req">> >>

PrefixAll(ns, fs) == [i \in 1 .. Len(fs) |-> <<ns>> \o fs[i]]

\* multiGatherer.Gather appends the inner families as they are; the other two
\* set mf.Name to namespace + "_" + name.
Contribution(impl, ns, g) ==
    IF impl = "multiGatherer" THEN FamiliesOf(g) ELSE PrefixAll(ns, FamiliesOf(g))

NoGatherers == [ns \in Namespaces |-> "none"]
NoMultiCall == [op |-> "none", ns |-> "none", had |-> "none", err |-> FALSE, found |-> FALSE]
Present(m) == {ns \in Namespaces : m[ns] # "none"}

InitMulti ==
    /\ mImpl \in MultiImpls
    /\ mGatherers = NoGatherers
    /\ mReaders = 0
    /\ mCtxErr \in {"nil", "Canceled", "DeadlineExceeded"}
    /\ mPc = "idle"
    /\ mSnap = NoGatherers
    /\ mTodo = {}
    /\ mCur = "none"
    /\ mResult = <<>>
    /\ mRetErr = "nil"
    /\ mRetNil = TRUE
    /\ mLast = NoMultiCall
    /\ mGone = {}
    /\ mGoneAtCall = {}

IdleMulti ==
    /\ mImpl = "multiGathererWithContext"
    /\ mGatherers = NoGatherers
    /\ mReaders = 0
    /\ mCtxErr = "nil"
    /\ mPc = "idle"
    /\ mSnap = NoGatherers
    /\ mTodo = {}
    /\ mCur = "none"
    /\ mResult = <<>>
    /\ mRetErr = "nil"
    /\ mRetNil = TRUE
    /\ mLast = NoMultiCall
    /\ mGone = {}
    /\ mGoneAtCall = {}

MultiStep == UNCHANGED <<regVars, gatherVars, counterVars, extVars>>

\* A Register that stores the gatherer whatever the map holds.
MultiRegisterOverwrite(ns, g) ==
    /\ MultiStep
    /\ mReaders = 0
    /\ mGatherers' = [mGatherers EXCEPT ![ns] = g]
    /\ mLast' = [op |-> "Register", ns |-> ns, had |-> mGatherers[ns],
                 err |-> FALSE, found |-> FALSE]
    /\ mGone' = mGone \ {ns}
    /\ UNCHANGED <<mImpl, mReaders, mCtxErr, mPc, mSnap, mTodo, mCur, mResult,
                   mRetErr, mRetNil, mGoneAtCall>>

\* Register(namespace, gatherer): under the write lock; an occupied namespace
\* is an error and leaves the map alone.
MultiRegister(ns, g) ==
    /\ MultiStep
    /\ mReaders = 0
    /\ mGatherers' = IF mGatherers[ns] # "none"
                        THEN mGatherers
                        ELSE [mGatherers EXCEPT ![ns] = g]
    /\ mLast' = [op |-> "Register", ns |-> ns, had |-> mGatherers[ns],
                 err |-> (mGatherers[ns] # "none"), found |-> FALSE]
    /\ mGone' = mGone \ {ns}
    /\ UNCHANGED <<mImpl, mReaders, mCtxErr, mPc, mSnap, mTodo, mCur, mResult,
                   mRetErr, mRetNil, mGoneAtCall>>

\* A Deregister that reports what it found and deletes nothing.
MultiDeregisterKeep(ns) ==
    /\ MultiStep
    /\ mReaders = 0
    /\ mLast' = [op |-> "Deregister", ns |-> ns, had |-> mGatherers[ns],
                 err |-> FALSE, found |-> (mGatherers[ns] # "none")]
    /\ mGone' = mGone \cup {ns}
    /\ UNCHANGED <<mImpl, mGatherers, mReaders, mCtxErr, mPc, mSnap, mTodo, mCur, mResult,
                   mRetErr, mRetNil, mGoneAtCall>>

\* Deregister(namespace): under the write lock, delete(g.gatherers, namespace);
\* returns whether the namespace had an entry.
MultiDeregister(ns) ==
    /\ MultiStep
    /\ mReaders = 0
    /\ mGatherers' = [mGatherers EXCEPT ![ns] = "none"]
    /\ mLast' = [op |-> "Deregister", ns |-> ns, had |-> mGatherers[ns],
                 err |-> FALSE, found |-> (mGatherers[ns] # "none")]
    /\ mGone' = mGone \cup {ns}
    /\ UNCHANGED <<mImpl, mReaders, mCtxErr, mPc, mSnap, mTodo, mCur, mResult,
                   mRetErr, mRetNil, mGoneAtCall>>

\* Gather / GatherWithContext is called: RLock.
MultiGatherRLock ==
    /\ MultiStep
    /\ mPc = "idle"
    /\ mReaders' = mReaders + 1
    /\ mPc' = "locked"
    /\ mGoneAtCall' = mGone
    /\ UNCHANGED <<mImpl, mGatherers, mCtxErr, mSnap, mTodo, mCur, mResult,
                   mRetErr, mRetNil, mLast, mGone>>

\* multiGathererWithContext copies the map and calls RUnlock; multiGatherer
\* and prefixGatherer range over g.gatherers itself and keep the read lock
\* until the deferred RUnlock.
MultiGatherBeginLoop ==
    /\ MultiStep
    /\ mPc = "locked"
    /\ mSnap' = mGatherers
    /\ mTodo' = Present(mGatherers)
    /\ mReaders' = IF mImpl = "multiGathererWithContext" THEN mReaders - 1 ELSE mReaders
    /\ mPc' = "loop"
    /\ UNCHANGED <<mImpl, mGatherers, mCtxErr, mCur, mResult, mRetErr, mRetNil,
                   mLast, mGone, mGoneAtCall>>

\* return nil, err; multiGatherer and prefixGatherer release the read lock
\* in the deferred RUnlock.
MultiReturn(err, isNil) ==
    /\ mPc' = "returned"
    /\ mRetErr' = err
    /\ mRetNil' = isNil
    /\ mReaders' = IF mImpl = "multiGathererWithContext" THEN mReaders ELSE mReaders - 1

\* One iteration of the loop over the namespaces (map order): the ctx check
\* of multiGathererWithContext, then the call of the inner gatherer.
MultiGatherVisit(ns) ==
    /\ MultiStep
    /\ mPc = "loop"
    /\ ns \in mTodo
    /\ IF mImpl = "multiGathererWithContext" /\ mCtxErr # "nil"
          THEN /\ MultiReturn(mCtxErr, TRUE)
               /\ UNCHANGED <<mTodo, mCur>>
          ELSE /\ mTodo' = mTodo \ {ns}
               /\ mCur' = ns
               /\ mPc' = "inner"
               /\ UNCHANGED <<mReaders, mRetErr, mRetNil>>
    /\ UNCHANGED <<mImpl, mGatherers, mCtxErr, mSnap, mResult, mLast, mGone, mGoneAtCall>>

\* The inner gatherer returns: an error ends the Gather with (nil, err),
\* metrics are appended to the result.
MultiInnerReturn(ok) ==
    /\ MultiStep
    /\ mPc = "inner"
    /\ IF ok
          THEN /\ mResult' = mResult \o Contribution(mImpl, mCur, mSnap[mCur])
               /\ mPc' = "loop"
               /\ UNCHANGED <<mReaders, mRetErr, mRetNil>>
          ELSE /\ MultiReturn("inner", TRUE)
               /\ UNCHANGED mResult
    /\ UNCHANGED <<mImpl, mGatherers, mCtxErr, mSnap, mTodo, mCur, mLast, mGone, mGoneAtCall>>

\* The loop is over: return result, nil ("var result" stays nil when nothing
\* was appended).
MultiGatherDone ==
    /\ MultiStep
    /\ mPc = "loop"
    /\ mTodo = {}
    /\ MultiReturn("nil", mResult = <<>>)
    /\ UNCHANGED <<mImpl, mGatherers, mCtxErr, mSnap, mTodo, mCur, mResult,
                   mLast, mGone, mGoneAtCall>>

\* The context of GatherWithContext expires.
MultiDeadlineExpire ==
    /\ MultiStep
    /\ mCtxErr = "nil"
    /\ mCtxErr' = "DeadlineExceeded"
    /\ UNCHANGED <<mImpl, mGatherers, mReaders, mPc, mSnap, mTodo, mCur, mResult,
                   mRetErr, mRetNil, mLast, mGone, mGoneAtCall>>

MultiNext ==
    \/ \E ns \in Namespaces : \E g \in InnerGatherers : MultiRegister(ns, g)
    \/ \E ns \in Namespaces : MultiDeregister(ns)
    \/ MultiGatherRLock
    \/ MultiGatherBeginLoop
    \/ \E ns \in Namespaces : MultiGatherVisit(ns)
    \/ \E ok \in BOOLEAN : MultiInnerReturn(ok)
    \/ MultiGatherDone
    \/ MultiDeadlineExpire

\* ===================================================================
\* Part 4: the metrics HTTP handlers (HandlerForContext with its request
\* limiter, and HandlerForWithOpts) serving concurrent requests. The gatherer
\* is the interface value handed to the handler: what it returns is an input.
\* Durations are counted in seconds.
\* ===================================================================
\* Requests the handler serves concurrently.
MaxRequests == 2
\* Largest opts.MaxRequestsInFlight configured.
MaxInFlight == 1
\* Families a gatherer returns at most.
MaxFams == 1

Reqs == 1 .. MaxRequests
HandlerImpls == {"HandlerForContext", "HandlerForWithOpts"}
ErrorHandlings == {"HTTPErrorOnError", "ContinueOnError", "PanicOnError"}
\* opts.Timeout: not configured, or 3s.
ConfiguredTimeouts == {0, 3}
\* Scrape-timeout header: absent, unparsable, negative, zero, 2s, 5s.
HeaderValues == {"", "abc", "-2", "0", "2", "5"}

StatusOK == 200
StatusInternalServerError == 500
StatusServiceUnavailable == 503

\* strconv.ParseFloat(headerVal, 64) on the header values above.
ParseFloat(h) ==
    CASE h = "-2" -> [err |-> FALSE, seconds |-> 0 - 2]
      [] h = "0"  -> [err |-> FALSE, seconds |-> 0]
      [] h = "2"  -> [err |-> FALSE, seconds |-> 2]
      [] h = "5"  -> [err |-> FALSE, seconds |-> 5]
      [] OTHER    -> [err |-> TRUE, seconds |-> 0]

\* parsePrometheusScrapeTimeout (used by HandlerForContext).
parsePrometheusScrapeTimeout(h) ==
    IF h = "" THEN 0
    ELSE LET p == ParseFloat(h)
         IN IF p.err \/ p.seconds <= 0 THEN 0 ELSE p.seconds

\* parseScrapeTimeout (used by HandlerForWithOpts).
parseScrapeTimeout(h) ==
    IF h = "" THEN 0
    ELSE LET p == ParseFloat(h)
         IN IF p.err THEN 0
            ELSE IF p.seconds <= 0 THEN 0 ELSE p.seconds

selectTimeout(headerTimeout, optsTimeout) ==
    IF headerTimeout > 0 /\ optsTimeout > 0
    THEN IF headerTimeout < optsTimeout THEN headerTimeout ELSE optsTimeout
    ELSE IF headerTimeout > 0 THEN headerTimeout ELSE optsTimeout

\* The timeout the handler gives to context.WithTimeout; 0 when it sets none.
RequestTimeout(impl, h, optsTimeout) ==
    IF impl = "HandlerForContext"
    THEN LET headerTimeout == parsePrometheusScrapeTimeout(h)
         IN IF headerTimeout > 0 \/ optsTimeout > 0
            THEN selectTimeout(headerTimeout, optsTimeout)
            ELSE 0
    ELSE LET timeout == IF optsTimeout = 0 THEN parseScrapeTimeout(h) ELSE optsTimeout
         IN IF timeout > 0 THEN timeout ELSE 0

\* What a gatherer returns: n families (0: a nil or empty slice) and an
\* error: none, the context's error, or an error of its own.
GatherOutcomes == [n : 0 .. MaxFams, err : {"nil", "ctx", "other"}]
NoOutcome == [n |-> 0, err |-> "nil"]

InitRequests ==
    /\ hLimiter = 0
    /\ hPc = [r \in Reqs |-> "idle"]
    /\ hHeader = [r \in Reqs |-> ""]
    /\ hDeadline = [r \in Reqs |-> 0]
    /\ hAtArrival = [r \in Reqs |-> 0]
    /\ hHolds = [r \in Reqs |-> FALSE]
    /\ hExpired = [r \in Reqs |-> FALSE]
    /\ hLate = [r \in Reqs |-> FALSE]
    /\ hGatherCalled = [r \in Reqs |-> FALSE]
    /\ hGathered = [r \in Reqs |-> NoOutcome]
    /\ hStatus = [r \in Reqs |-> 0]
    /\ hBodyFams = [r \in Reqs |-> 0]
    /\ hBodyErrs = [r \in Reqs |-> 0]
    /\ hExit = [r \in Reqs |-> "none"]

\* HandlerOpts of handler.go has no MaxRequestsInFlight field.
InitHandler ==
    /\ hImpl \in HandlerImpls
    /\ hMaxInFlight \in (IF hImpl = "HandlerForContext" THEN 0 .. MaxInFlight ELSE {0})
    /\ hTimeout \in ConfiguredTimeouts
    /\ hErrorHandling \in ErrorHandlings
    /\ InitRequests

IdleHandler ==
    /\ hImpl = "HandlerForContext"
    /\ hMaxInFlight = 0
    /\ hTimeout = 0
    /\ hErrorHandling = "HTTPErrorOnError"
    /\ InitRequests

HandlerStep ==
    UNCHANGED <<regVars, gatherVars, counterVars, multiVars, vecVars, namesVars, histVars,
                textVars, sumVars, restVars>>
HandlerConfig == <<hImpl, hMaxInFlight, hTimeout, hErrorHandling>>

\* The handler without the select on requestLimiter: every request goes on.
HandlerArriveNoGate(r, h) ==
    /\ HandlerStep
    /\ hPc[r] = "idle"
    /\ hHeader' = [hHeader EXCEPT ![r] = h]
    /\ hAtArrival' = [hAtArrival EXCEPT ![r] = hLimiter]
    /\ hLimiter' = IF hMaxInFlight > 0 THEN hLimiter + 1 ELSE hLimiter
    /\ hHolds' = [hHolds EXCEPT ![r] = hMaxInFlight > 0]
    /\ hDeadline' = [hDeadline EXCEPT ![r] = RequestTimeout(hImpl, h, hTimeout)]
    /\ hPc' = [hPc EXCEPT ![r] = "arrived"]
    /\ UNCHANGED <<HandlerConfig, hStatus, hExpired, hLate, hGatherCalled, hGathered,
                   hBodyFams, hBodyErrs, hExit>>

\* A request arrives. With a request limiter, the select either buffers a
\* token or, when the channel is full, takes the default case: 503 and return.
\* Otherwise the handler derives the request's timeout.
HandlerArrive(r, h) ==
    /\ HandlerStep
    /\ hPc[r] = "idle"
    /\ hHeader' = [hHeader EXCEPT ![r] = h]
    /\ hAtArrival' = [hAtArrival EXCEPT ![r] = hLimiter]
    /\ IF hMaxInFlight > 0 /\ hLimiter >= hMaxInFlight
       THEN /\ hStatus' = [hStatus EXCEPT ![r] = StatusServiceUnavailable]
            /\ hPc' = [hPc EXCEPT ![r] = "done"]
            /\ hExit' = [hExit EXCEPT ![r] = "rejected"]
            /\ UNCHANGED <<hLimiter, hHolds, hDeadline>>
       ELSE /\ hLimiter' = IF hMaxInFlight > 0 THEN hLimiter + 1 ELSE hLimiter
            /\ hHolds' = [hHolds EXCEPT ![r] = hMaxInFlight > 0]
            /\ hDeadline' = [hDeadline EXCEPT ![r] = RequestTimeout(hImpl, h, hTimeout)]
            /\ hPc' = [hPc EXCEPT ![r] = "arrived"]
            /\ UNCHANGED <<hStatus, hExit>>
    /\ UNCHANGED <<HandlerConfig, hExpired, hLate, hGatherCalled, hGathered,
                   hBodyFams, hBodyErrs>>

\* The handler calls the gatherer. HandlerForContext calls GatherWithContext;
\* gatherWithContext of handler.go first tests ctx.Err() and, when it is set,
\* returns (nil, err) without calling Gather.
HandlerCallGather(r) ==
    /\ HandlerStep
    /\ hPc[r] = "arrived"
    /\ IF hImpl = "HandlerForWithOpts" /\ hExpired[r]
       THEN /\ hGathered' = [hGathered EXCEPT ![r] = [n |-> 0, err |-> "ctx"]]
            /\ hPc' = [hPc EXCEPT ![r] = "returned"]
            /\ UNCHANGED hGatherCalled
       ELSE /\ hGatherCalled' = [hGatherCalled EXCEPT ![r] = TRUE]
            /\ hPc' = [hPc EXCEPT ![r] = "gathering"]
            /\ UNCHANGED hGathered
    /\ UNCHANGED <<HandlerConfig, hLimiter, hHeader, hDeadline, hAtArrival, hHolds,
                   hExpired, hLate, hStatus, hBodyFams, hBodyErrs, hExit>>

\* The gatherer returns. It can return the context's error only once the
\* context has one.
HandlerGatherReturn(r, out) ==
    /\ HandlerStep
    /\ hPc[r] = "gathering"
    /\ out.err = "ctx" => hExpired[r]
    /\ hGathered' = [hGathered EXCEPT ![r] = out]
    /\ hPc' = [hPc EXCEPT ![r] = "returned"]
    /\ UNCHANGED <<HandlerConfig, hLimiter, hHeader, hDeadline, hAtArrival, hHolds,
                   hExpired, hLate, hGatherCalled, hStatus, hBodyFams, hBodyErrs, hExit>>

\* Response of HandlerForContext: <<status, families, error metrics>>.
\* Status 0: panic(err), no response is written.
RespondForContext(out, policy, ctxDone) ==
    IF out.err # "nil"
    THEN CASE policy = "HTTPErrorOnError" ->
                  IF ctxDone THEN <<StatusServiceUnavailable, 0, 0>>
                             ELSE <<StatusInternalServerError, 0, 0>>
           [] policy = "ContinueOnError" -> <<StatusOK, out.n, 1>>
           [] OTHER -> <<0, 0, 0>>
    ELSE <<StatusOK, out.n, 0>>

\* Response of HandlerForWithOpts.
RespondForWithOpts(out, policy) ==
    IF out.err # "nil" /\ policy # "ContinueOnError"
    THEN <<StatusInternalServerError, 0, 0>>
    ELSE <<StatusOK, out.n, 0>>

\* What the handler does with the gatherer's result.
Response(r) ==
    IF hImpl = "HandlerForContext"
    THEN RespondForContext(hGathered[r], hErrorHandling, hExpired[r])
    ELSE RespondForWithOpts(hGathered[r], hErrorHandling)

\* The path on which the handler function ends for a response.
ExitPath(resp) ==
    IF resp[1] = 0 THEN "panic"
    ELSE IF resp[1] = StatusOK THEN "success" ELSE "error response"

\* A handler whose token is given back by the last statement of the
\* function instead of a deferred one: a panic skips it.
HandlerRespondNoDefer(r) ==
    /\ HandlerStep
    /\ hPc[r] = "returned"
    /\ hStatus' = [hStatus EXCEPT ![r] = Response(r)[1]]
    /\ hBodyFams' = [hBodyFams EXCEPT ![r] = Response(r)[2]]
    /\ hBodyErrs' = [hBodyErrs EXCEPT ![r] = Response(r)[3]]
    /\ hExit' = [hExit EXCEPT ![r] = ExitPath(Response(r))]
    /\ IF hHolds[r] /\ Response(r)[1] # 0
       THEN hLimiter' = hLimiter - 1 /\ hHolds' = [hHolds EXCEPT ![r] = FALSE]
       ELSE UNCHANGED <<hLimiter, hHolds>>
    /\ hPc' = [hPc EXCEPT ![r] = "done"]
    /\ UNCHANGED <<HandlerConfig, hHeader, hDeadline, hAtArrival, hExpired, hLate,
                   hGatherCalled, hGathered>>

\* encoder.Encode fails on the first family of HandlerForContext's response:
\* the header is set, the error is logged and the function returns; the
\* deferred receive gives the token back.
HandlerEncodeFail(r) ==
    /\ HandlerStep
    /\ hPc[r] = "returned"
    /\ hImpl = "HandlerForContext"
    /\ Response(r)[1] = StatusOK
    /\ Response(r)[2] + Response(r)[3] > 0
    /\ hStatus' = [hStatus EXCEPT ![r] = StatusOK]
    /\ hExit' = [hExit EXCEPT ![r] = "encode failure"]
    /\ hLimiter' = IF hHolds[r] THEN hLimiter - 1 ELSE hLimiter
    /\ hHolds' = [hHolds EXCEPT ![r] = FALSE]
    /\ hPc' = [hPc EXCEPT ![r] = "done"]
    /\ UNCHANGED <<HandlerConfig, hHeader, hDeadline, hAtArrival, hExpired, hLate,
                   hGatherCalled, hGathered, hBodyFams, hBodyErrs>>

\* The handler answers the request and, on return or panic, the deferred
\* receive gives its token back.
HandlerRespond(r) ==
    /\ HandlerStep
    /\ hPc[r] = "returned"
    /\ LET resp == Response(r)
       IN /\ hStatus' = [hStatus EXCEPT ![r] = resp[1]]
          /\ hBodyFams' = [hBodyFams EXCEPT ![r] = resp[2]]
          /\ hBodyErrs' = [hBodyErrs EXCEPT ![r] = resp[3]]
          /\ hExit' = [hExit EXCEPT ![r] = ExitPath(resp)]
    /\ hLimiter' = IF hHolds[r] THEN hLimiter - 1 ELSE hLimiter
    /\ hHolds' = [hHolds EXCEPT ![r] = FALSE]
    /\ hPc' = [hPc EXCEPT ![r] = "done"]
    /\ UNCHANGED <<HandlerConfig, hHeader, hDeadline, hAtArrival, hExpired, hLate,
                   hGatherCalled, hGathered>>

\* The timeout of context.WithTimeout passes while the request is served.
HandlerDeadlineExpire(r) ==
    /\ HandlerStep
    /\ hPc[r] \in {"arrived", "gathering", "returned"}
    /\ hDeadline[r] > 0
    /\ ~hExpired[r]
    /\ hExpired' = [hExpired EXCEPT ![r] = TRUE]
    /\ hLate' = [hLate EXCEPT ![r] = hLate[r] \/ hPc[r] \in {"arrived", "gathering"}]
    /\ UNCHANGED <<HandlerConfig, hLimiter, hPc, hHeader, hDeadline, hAtArrival, hHolds,
                   hGatherCalled, hGathered, hStatus, hBodyFams, hBodyErrs, hExit>>

HandlerNext ==
    \/ \E r \in Reqs : \E h \in HeaderValues : HandlerArrive(r, h)
    \/ \E r \in Reqs : HandlerCallGather(r)
    \/ \E r \in Reqs : \E out \in GatherOutcomes : HandlerGatherReturn(r, out)
    \/ \E r \in Reqs : HandlerRespond(r)
    \/ \E r \in Reqs : HandlerEncodeFail(r)
    \/ \E r \in Reqs : HandlerDeadlineExpire(r)

\* ===================================================================
\* Part 5: one labeled vector (counterVec of the registry, highPerfCounterVec
\* of the high-performance factory) accessed by concurrent goroutines through
\* With / WithLabelValues. A key is the sequence of <<name, value>> pairs the
\* key function writes between the braces; <<>> is the empty string.
\* ===================================================================
\* Goroutines that access the vector.
NumCallers == 2
\* With / WithLabelValues calls each goroutine makes at most.
MaxAccesses == 2

Callers == 1 .. NumCallers
VecImpls == {"counterVec", "highPerfCounterVec"}
\* labelNames as given to NewCounterVec.
vLabelNames == <<"method", "code">>
\* A label name the vector does not declare and labelNameRE does not match.
UndeclaredName == "0bad"
\* The order sort.Strings gives the label names a call can carry.
SortedLabelNames == <<"0bad", "code", "method">>
\* ValidateLabelName on the names of the model: labelNameRE is
\* ^[a-zA-Z_][a-zA-Z0-9_]*$, which rejects a leading digit.
ValidateLabelName(name) == name # UndeclaredName
\* ValidateLabels: nil exactly when every key of the map is a valid name.
ValidateLabels(labels) == \A k \in DOMAIN labels : ValidateLabelName(k)
LabelValues == {"GET", "POST"}
\* The values the callers give a label: two methods, one code.
ValuesOf(name) == IF name = "code" THEN {"200"} ELSE LabelValues
NameSet(names) == {names[i] : i \in 1 .. Len(names)}

\* Arguments of With: maps from some of the label names to values, and one
\* map that carries the undeclared name.
LabelsArgs ==
    UNION {{f \in [ns -> LabelValues \cup {"200"}] : \A n \in ns : f[n] \in ValuesOf(n)} :
              ns \in SUBSET NameSet(vLabelNames)}
        \cup {[n \in {UndeclaredName} |-> "GET"]}
\* Arguments of WithLabelValues: up to one value per label name.
ValuesArgs ==
    UNION {{f \in [1 .. n -> LabelValues \cup {"200"}] :
                \A i \in 1 .. n : f[i] \in ValuesOf(vLabelNames[i])} :
              n \in 0 .. Len(vLabelNames)}

\* labelsFromValues: the i-th name gets the i-th value while there is one.
labelsFromValues(labelNames, values) ==
    [n \in {labelNames[i] : i \in 1 .. Len(labelNames)} \cap
           {labelNames[i] : i \in 1 .. Len(values)} |->
        values[CHOOSE i \in 1 .. Len(labelNames) : labelNames[i] = n]]

\* labelsKeyFromLabels: the pairs of the map, ordered by name.
labelsKeyFromLabels(labels) ==
    LET present == SelectSeq(SortedLabelNames, LAMBDA n : n \in DOMAIN labels)
    IN [i \in 1 .. Len(present) |-> <<present[i], labels[present[i]]>>]

\* A key function that writes only the labels the map holds.
labelsKeyPresent(labelNames, labels) ==
    LET present == SelectSeq(labelNames, LAMBDA n : n \in DOMAIN labels)
    IN [i \in 1 .. Len(present) |-> <<present[i], labels[present[i]]>>]

\* labelsKey: one pair per label name, in declaration order; a missing
\* label reads as the empty string.
labelsKey(labelNames, labels) ==
    [i \in 1 .. Len(labelNames) |->
        <<labelNames[i], IF labelNames[i] \in DOMAIN labels THEN labels[labelNames[i]] ELSE "">>]

\* valuesKey: one pair per label name; a missing value is the empty string.
valuesKey(labelNames, values) ==
    [i \in 1 .. Len(labelNames) |->
        <<labelNames[i], IF i <= Len(values) THEN values[i] ELSE "">>]

\* The key With(labels) resolves to.
WithKey(impl, labels) ==
    IF impl = "counterVec" THEN labelsKeyFromLabels(labels)
    ELSE labelsKey(vLabelNames, labels)

\* The key WithLabelValues(values...) resolves to.
WithLabelValuesKey(impl, values) ==
    IF impl = "counterVec" THEN labelsKeyFromLabels(labelsFromValues(vLabelNames, values))
    ELSE valuesKey(vLabelNames, values)

\* v.counters[key]: the instances stored under key (none or one).
VecLookupKey(m, key) == {p[2] : p \in {q \in m : q[1] = key}}
\* m[key] = inst
VecStoreKey(m, key, inst) == {q \in m : q[1] # key} \cup {<<key, inst>>}

InitVecState ==
    /\ vMu = 0
    /\ vCounters = {}
    /\ vRegistry = {}
    /\ vNextInst = 1
    /\ vCreated = {}
    /\ vReturned = {}
    /\ vPc = [w \in Callers |-> "idle"]
    /\ vKey = [w \in Callers |-> <<>>]
    /\ vInst = [w \in Callers |-> 0]
    /\ vCalls = [w \in Callers |-> 0]
    /\ vVia = [w \in Callers |-> "none"]
    /\ vArg = [w \in Callers |-> <<>>]
    /\ vResolved = {}

InitVec == vImpl \in VecImpls /\ InitVecState
IdleVec == vImpl = "counterVec" /\ InitVecState

VecStep ==
    UNCHANGED <<regVars, gatherVars, counterVars, multiVars, handlerVars, namesVars, histVars,
                textVars, sumVars, restVars>>

\* With(labels) or WithLabelValues(values...): the key is computed, then
\* getOrCreate asks for v.mu. No branch of either method looks at the label
\* names before it computes the key.
VecCall(w, via, labels, key) ==
    /\ VecStep
    /\ vPc[w] = "idle"
    /\ vCalls[w] < MaxAccesses
    /\ vCalls' = [vCalls EXCEPT ![w] = @ + 1]
    /\ vKey' = [vKey EXCEPT ![w] = key]
    /\ vVia' = [vVia EXCEPT ![w] = via]
    /\ vArg' = [vArg EXCEPT ![w] = labels]
    /\ vPc' = [vPc EXCEPT ![w] = "lock"]
    /\ UNCHANGED <<vImpl, vMu, vCounters, vRegistry, vNextInst, vCreated, vReturned, vInst,
                   vResolved>>

\* getOrCreate entered without mutual exclusion.
VecLockNoMutex(w) ==
    /\ VecStep
    /\ vPc[w] = "lock"
    /\ vMu' = w
    /\ vPc' = [vPc EXCEPT ![w] = "lookup"]
    /\ UNCHANGED <<vImpl, vCounters, vRegistry, vNextInst, vCreated, vReturned, vKey,
                   vInst, vCalls, vVia, vArg, vResolved>>

\* v.mu.Lock()
VecLock(w) ==
    /\ VecStep
    /\ vPc[w] = "lock"
    /\ vMu = 0
    /\ vMu' = w
    /\ vPc' = [vPc EXCEPT ![w] = "lookup"]
    /\ UNCHANGED <<vImpl, vCounters, vRegistry, vNextInst, vCreated, vReturned, vKey,
                   vInst, vCalls, vVia, vArg, vResolved>>

\* if c, ok := v.counters[key]; ok { return c }, with the deferred Unlock.
VecLookupHit(w) ==
    /\ VecStep
    /\ vPc[w] = "lookup"
    /\ VecLookupKey(vCounters, vKey[w]) # {}
    /\ vReturned' = vReturned \cup {<<vKey[w], CHOOSE i \in VecLookupKey(vCounters, vKey[w]) : TRUE>>}
    /\ vMu' = 0
    /\ vResolved' = vResolved \cup
           {<<vVia[w], vArg[w], CHOOSE i \in VecLookupKey(vCounters, vKey[w]) : TRUE>>}
    /\ vKey' = [vKey EXCEPT ![w] = <<>>]
    /\ vVia' = [vVia EXCEPT ![w] = "none"]
    /\ vArg' = [vArg EXCEPT ![w] = <<>>]
    /\ vPc' = [vPc EXCEPT ![w] = "idle"]
    /\ UNCHANGED <<vImpl, vCounters, vRegistry, vNextInst, vCreated, vInst, vCalls>>

\* The key is absent: newCounter and registration with the owning registry
\* (RegisterLabeledCounter, or factory.NewCounter under the name v.name+key).
VecCreate(w) ==
    /\ VecStep
    /\ vPc[w] = "lookup"
    /\ VecLookupKey(vCounters, vKey[w]) = {}
    /\ vInst' = [vInst EXCEPT ![w] = vNextInst]
    /\ vNextInst' = vNextInst + 1
    /\ vCreated' = vCreated \cup {<<vKey[w], vNextInst>>}
    /\ vRegistry' = VecStoreKey(vRegistry, vKey[w], vNextInst)
    /\ vPc' = [vPc EXCEPT ![w] = "store"]
    /\ UNCHANGED <<vImpl, vMu, vCounters, vReturned, vKey, vCalls, vVia, vArg, vResolved>>

\* v.counters[key] = counter; return counter, with the deferred Unlock.
VecStore(w) ==
    /\ VecStep
    /\ vPc[w] = "store"
    /\ vCounters' = VecStoreKey(vCounters, vKey[w], vInst[w])
    /\ vReturned' = vReturned \cup {<<vKey[w], vInst[w]>>}
    /\ vMu' = 0
    /\ vResolved' = vResolved \cup {<<vVia[w], vArg[w], vInst[w]>>}
    /\ vKey' = [vKey EXCEPT ![w] = <<>>]
    /\ vVia' = [vVia EXCEPT ![w] = "none"]
    /\ vArg' = [vArg EXCEPT ![w] = <<>>]
    /\ vInst' = [vInst EXCEPT ![w] = 0]
    /\ vPc' = [vPc EXCEPT ![w] = "idle"]
    /\ UNCHANGED <<vImpl, vRegistry, vNextInst, vCreated, vCalls>>

VecNext ==
    \/ \E w \in Callers : \E labels \in LabelsArgs :
           VecCall(w, "With", labels, WithKey(vImpl, labels))
    \/ \E w \in Callers : \E values \in ValuesArgs :
           VecCall(w, "WithLabelValues", labelsFromValues(vLabelNames, values),
                   WithLabelValuesKey(vImpl, values))
    \/ \E w \in Callers : VecLock(w)
    \/ \E w \in Callers : VecLookupHit(w)
    \/ \E w \in Callers : VecCreate(w)
    \/ \E w \in Callers : VecStore(w)

\* ===================================================================
\* Part 6: the registry of part_015 (family maps per kind, and the names
\* recorded by Register) driven by one caller: New<Kind>, Register, Gather.
\* Families are unlabeled: the label key is "" throughout.
\* ===================================================================
\* Primitives created during one run.
MaxPrimitives == 3

FamilyNames == {"requests", "latency"}
MetricTypes == {"counter", "gauge", "histogram", "summary"}
PrimIds == 1 .. MaxPrimitives
FamilySlots == MetricTypes \X FamilyNames
NoFamilies == [s \in FamilySlots |-> 0]
NoPrim == [typ |-> "none", name |-> "none"]
NoCall == [op |-> "none", conflict |-> FALSE, err |-> FALSE, kept |-> TRUE]

\* Families the maps hold: a slot is occupied when it stores a primitive.
Families(m) == {s \in FamilySlots : m[s] # 0}

\* collectorIdentity: name and type of a primitive.
collectorIdentity(p) == <<p.name, p.typ>>

\* The name is taken by a family, or a Register record, of another type.
NameConflict(fam, reg, name, typ) ==
    \/ \E t \in MetricTypes \ {typ} : fam[<<t, name>>] # 0
    \/ reg[name] \notin {"none", typ}

\* The orders in which a range over a Go map with the keys S can visit them.
Perms(S) ==
    {o \in [1 .. Cardinality(S) -> S] : \A i, j \in 1 .. Cardinality(S) : o[i] = o[j] => i = j}

KindFamilies(m, typ) == {s \in Families(m) : s[1] = typ}

\* The slices Gather can build: the counters map in the order of its range,
\* then the gauges, the histograms and the summaries.
GatherOrders(m) ==
    {c \o g \o h \o u : c \in Perms(KindFamilies(m, "counter")),
                        g \in Perms(KindFamilies(m, "gauge")),
                        h \in Perms(KindFamilies(m, "histogram")),
                        u \in Perms(KindFamilies(m, "summary"))}

\* A call other than Gather ends the run of consecutive Gather calls.
RunEnds == rOrder' = <<>> /\ rPrevOrder' = <<>> /\ rRuns' = 0

InitNames ==
    /\ rFamilies = NoFamilies
    /\ rRegistered = [n \in FamilyNames |-> "none"]
    /\ rPrims = [i \in PrimIds |-> NoPrim]
    /\ rNextPrim = 1
    /\ rGathered = {}
    /\ rLast = NoCall
    /\ rOrder = <<>>
    /\ rPrevOrder = <<>>
    /\ rRuns = 0

NamesStep ==
    UNCHANGED <<regVars, gatherVars, counterVars, multiVars, handlerVars, vecVars, histVars,
                textVars, sumVars, restVars>>

\* registry.NewCounter / NewGauge / NewHistogram / NewSummary: the primitive
\* is created and stored in the map of its kind under its name; the names
\* recorded by Register are neither consulted nor changed.
RegistryNew(typ, name) ==
    /\ NamesStep
    /\ rNextPrim <= MaxPrimitives
    /\ rPrims' = [rPrims EXCEPT ![rNextPrim] = [typ |-> typ, name |-> name]]
    /\ rFamilies' = [rFamilies EXCEPT ![<<typ, name>>] = rNextPrim]
    /\ rNextPrim' = rNextPrim + 1
    /\ rLast' = [op |-> "New", conflict |-> NameConflict(rFamilies, rRegistered, name, typ),
                 err |-> FALSE,
                 kept |-> \A s \in Families(rFamilies) : rFamilies'[s] = rFamilies[s]]
    /\ RunEnds
    /\ UNCHANGED <<rRegistered, rGathered>>

\* registerName: an error when the name is recorded, else it is recorded.
registerNameFails(reg, name) == reg[name] # "none"

\* registry.Register(c) for the primitive p with identity id: registerName,
\* then Register<Kind>(name, c).
RegistryRegisterPrim(id, p) ==
    /\ NamesStep
    /\ LET name == collectorIdentity(p)[1]
           typ == collectorIdentity(p)[2]
       IN IF registerNameFails(rRegistered, name)
          THEN /\ rLast' = [op |-> "Register",
                            conflict |-> NameConflict(rFamilies, rRegistered, name, typ),
                            err |-> TRUE, kept |-> TRUE]
               /\ UNCHANGED <<rRegistered, rFamilies>>
          ELSE /\ rRegistered' = [rRegistered EXCEPT ![name] = typ]
               /\ rFamilies' = [rFamilies EXCEPT ![<<typ, name>>] = id]
               /\ rLast' = [op |-> "Register",
                            conflict |-> NameConflict(rFamilies, rRegistered, name, typ),
                            err |-> FALSE,
                            kept |-> \A s \in Families(rFamilies) : rFamilies'[s] = rFamilies[s]]
    /\ RunEnds
    /\ UNCHANGED rGathered

\* Register of a primitive that was created elsewhere (by another registry).
RegistryRegisterNew(typ, name) ==
    /\ rNextPrim <= MaxPrimitives
    /\ rPrims' = [rPrims EXCEPT ![rNextPrim] = [typ |-> typ, name |-> name]]
    /\ rNextPrim' = rNextPrim + 1
    /\ RegistryRegisterPrim(rNextPrim, [typ |-> typ, name |-> name])

\* Register of a primitive this registry created or registered before.
RegistryRegisterAgain(id) ==
    /\ id < rNextPrim
    /\ UNCHANGED <<rPrims, rNextPrim>>
    /\ RegistryRegisterPrim(id, rPrims[id])

\* registry.Gather: one family per entry of each of the four maps, appended
\* in the order the range over each map yields them; the slice is returned
\* as built.
RegistryGather ==
    /\ NamesStep
    /\ rGathered' = Families(rFamilies)
    /\ \E o \in GatherOrders(rFamilies) : rOrder' = o
    /\ rPrevOrder' = rOrder
    /\ rRuns' = IF rRuns = 0 THEN 1 ELSE 2
    /\ rLast' = [NoCall EXCEPT !.op = "Gather"]
    /\ UNCHANGED <<rFamilies, rRegistered, rPrims, rNextPrim>>

NamesNext ==
    \/ \E typ \in MetricTypes : \E name \in FamilyNames : RegistryNew(typ, name)
    \/ \E typ \in MetricTypes : \E name \in FamilyNames : RegistryRegisterNew(typ, name)
    \/ \E id \in PrimIds : RegistryRegisterAgain(id)
    \/ RegistryGather

\* ===================================================================
\* Part 7: one metricHistogram of a registry: goroutines that call Observe,
\* and a goroutine that calls registry.Gather (which calls ToMetric).
\* Observed values, boundaries and the sum are counted in tenths.
\* ===================================================================
\* Goroutines that call Observe.
NumObservers == 2
\* Observe calls made during one run.
MaxObservations == 3

Observers == 1 .. NumObservers
\* The buckets argument of NewHistogram: [1, 5], also given out of order.
BucketArgs == {<<10, 50>>, <<50, 10>>}
\* Arguments of Observe: 0.5, 1.0, 1.2 and 6.0.
ObserveValues == {5, 10, 12, 60}

SeqRange(s) == {s[i] : i \in 1 .. Len(s)}
Occurrences(s, x) == Cardinality({i \in 1 .. Len(s) : s[i] = x})

\* sort.Float64s: the same values in ascending order.
SortFloat64s(s) ==
    CHOOSE t \in [1 .. Len(s) -> SeqRange(s)] :
        /\ \A x \in SeqRange(s) : Occurrences(t, x) = Occurrences(s, x)
        /\ \A i \in 1 .. (Len(s) - 1) : t[i] <= t[i + 1]

\* A bucket search that passes over a boundary equal to val.
RECURSIVE FindBucketStrict(_, _, _)
FindBucketStrict(buckets, i, val) ==
    IF i > Len(buckets) THEN Len(buckets) + 1
    ELSE IF val < buckets[i] THEN i
    ELSE FindBucketStrict(buckets, i + 1, val)

\* The bucket search of Observe: the first index whose boundary is >= val,
\* scanning from index i; len(buckets) + 1 stands for the +Inf bucket.
RECURSIVE FindBucket(_, _, _)
FindBucket(buckets, i, val) ==
    IF i > Len(buckets) THEN Len(buckets) + 1
    ELSE IF val <= buckets[i] THEN i
    ELSE FindBucket(buckets, i + 1, val)

\* The running total of ToMetric after the first i raw bucket counts.
RECURSIVE CumulativeCount(_, _)
CumulativeCount(counts, i) ==
    IF i = 0 THEN 0 ELSE CumulativeCount(counts, i - 1) + counts[i]

\* MetricValue built by ToMetric: one cumulative count per boundary and one
\* for +Inf, SampleCount and SampleSum.
ToMetric(counts, count, sum) ==
    [buckets |-> [i \in 1 .. Len(counts) |-> CumulativeCount(counts, i)],
     count |-> count,
     sum |-> sum]

GetCount == hgCount

NoSnapshot == [buckets |-> <<>>, count |-> 0, sum |-> 0]

\* newHistogram: sorted boundaries, one raw count per boundary plus +Inf.
InitHist ==
    /\ \E arg \in BucketArgs : hgBuckets = SortFloat64s(arg)
    /\ hgBucketCounts = [i \in 1 .. (Len(hgBuckets) + 1) |-> 0]
    /\ hgCount = 0
    /\ hgSum = 0
    /\ hgWriter = 0
    /\ hgReaders = 0
    /\ hgPc = [w \in Observers |-> "idle"]
    /\ hgVal = [w \in Observers |-> 0]
    /\ hgCalls = 0
    /\ hgObserved = <<>>
    /\ hgRegReaders = 0
    /\ hgGatherPc = "idle"
    /\ hgSnap = NoSnapshot

HistStep ==
    UNCHANGED <<regVars, gatherVars, counterVars, multiVars, handlerVars, vecVars, namesVars,
                textVars, sumVars, restVars>>

\* A goroutine calls Observe(val) and asks for vh.mu.
ObserveCall(w, val) ==
    /\ HistStep
    /\ hgPc[w] = "idle"
    /\ hgCalls < MaxObservations
    /\ hgCalls' = hgCalls + 1
    /\ hgVal' = [hgVal EXCEPT ![w] = val]
    /\ hgPc' = [hgPc EXCEPT ![w] = "lock"]
    /\ UNCHANGED <<hgBuckets, hgBucketCounts, hgCount, hgSum, hgWriter, hgReaders,
                   hgObserved, hgRegReaders, hgGatherPc, hgSnap>>

\* Observe entered without waiting for the lock.
ObserveLockNoMutex(w) ==
    /\ HistStep
    /\ hgPc[w] = "lock"
    /\ hgWriter' = w
    /\ hgPc' = [hgPc EXCEPT ![w] = "bucket"]
    /\ UNCHANGED <<hgBuckets, hgBucketCounts, hgCount, hgSum, hgReaders, hgVal, hgCalls,
                   hgObserved, hgRegReaders, hgGatherPc, hgSnap>>

\* vh.mu.Lock(): granted when no writer and no reader holds the lock.
ObserveLock(w) ==
    /\ HistStep
    /\ hgPc[w] = "lock"
    /\ hgWriter = 0
    /\ hgReaders = 0
    /\ hgWriter' = w
    /\ hgPc' = [hgPc EXCEPT ![w] = "bucket"]
    /\ UNCHANGED <<hgBuckets, hgBucketCounts, hgCount, hgSum, hgReaders, hgVal, hgCalls,
                   hgObserved, hgRegReaders, hgGatherPc, hgSnap>>

\* The bucket search and atomic.AddUint64(&vh.bucketCounts[bucketIdx], 1).
ObserveBucket(w) ==
    /\ HistStep
    /\ hgPc[w] = "bucket"
    /\ hgBucketCounts' = [hgBucketCounts EXCEPT ![FindBucket(hgBuckets, 1, hgVal[w])] = @ + 1]
    /\ hgPc' = [hgPc EXCEPT ![w] = "count"]
    /\ UNCHANGED <<hgBuckets, hgCount, hgSum, hgWriter, hgReaders, hgVal, hgCalls,
                   hgObserved, hgRegReaders, hgGatherPc, hgSnap>>

\* atomic.AddUint64(&vh.count, 1)
ObserveCount(w) ==
    /\ HistStep
    /\ hgPc[w] = "count"
    /\ hgCount' = hgCount + 1
    /\ hgPc' = [hgPc EXCEPT ![w] = "sum"]
    /\ UNCHANGED <<hgBuckets, hgBucketCounts, hgSum, hgWriter, hgReaders, hgVal, hgCalls,
                   hgObserved, hgRegReaders, hgGatherPc, hgSnap>>

\* The compare-and-swap of the sum, and the deferred Unlock.
ObserveSum(w) ==
    /\ HistStep
    /\ hgPc[w] = "sum"
    /\ hgSum' = hgSum + hgVal[w]
    /\ hgObserved' = Append(hgObserved, hgVal[w])
    /\ hgWriter' = IF hgWriter = w THEN 0 ELSE hgWriter
    /\ hgPc' = [hgPc EXCEPT ![w] = "idle"]
    /\ UNCHANGED <<hgBuckets, hgBucketCounts, hgCount, hgReaders, hgVal, hgCalls,
                   hgRegReaders, hgGatherPc, hgSnap>>

\* registry.Gather: hpr.mu.RLock()
HistGatherBegin ==
    /\ HistStep
    /\ hgGatherPc = "idle"
    /\ hgRegReaders' = hgRegReaders + 1
    /\ hgGatherPc' = "families"
    /\ UNCHANGED <<hgBuckets, hgBucketCounts, hgCount, hgSum, hgWriter, hgReaders, hgPc,
                   hgVal, hgCalls, hgObserved, hgSnap>>

\* entry.histogram.ToMetric: vh.mu.RLock(), granted when no writer holds the
\* lock or waits for it.
ToMetricRLock ==
    /\ HistStep
    /\ hgGatherPc = "families"
    /\ hgWriter = 0
    /\ \A w \in Observers : hgPc[w] # "lock"
    /\ hgReaders' = hgReaders + 1
    /\ hgGatherPc' = "tometric"
    /\ UNCHANGED <<hgBuckets, hgBucketCounts, hgCount, hgSum, hgWriter, hgPc, hgVal,
                   hgCalls, hgObserved, hgRegReaders, hgSnap>>

\* ToMetric reads the raw counts, the count and the sum, and returns with
\* the deferred RUnlock.
ToMetricReturn ==
    /\ HistStep
    /\ hgGatherPc = "tometric"
    /\ hgSnap' = ToMetric(hgBucketCounts, hgCount, hgSum)
    /\ hgReaders' = hgReaders - 1
    /\ hgGatherPc' = "gathered"
    /\ UNCHANGED <<hgBuckets, hgBucketCounts, hgCount, hgSum, hgWriter, hgPc, hgVal,
                   hgCalls, hgObserved, hgRegReaders>>

\* Gather returns the families, with the deferred hpr.mu.RUnlock().
HistGatherReturn ==
    /\ HistStep
    /\ hgGatherPc = "gathered"
    /\ hgRegReaders' = hgRegReaders - 1
    /\ hgGatherPc' = "idle"
    /\ UNCHANGED <<hgBuckets, hgBucketCounts, hgCount, hgSum, hgWriter, hgReaders, hgPc,
                   hgVal, hgCalls, hgObserved, hgSnap>>

HistNext ==
    \/ \E w \in Observers : \E val \in ObserveValues : ObserveCall(w, val)
    \/ \E w \in Observers : ObserveLock(w)
    \/ \E w \in Observers : ObserveBucket(w)
    \/ \E w \in Observers : ObserveCount(w)
    \/ \E w \in Observers : ObserveSum(w)
    \/ HistGatherBegin
    \/ ToMetricRLock
    \/ ToMetricReturn
    \/ HistGatherReturn

\* ===================================================================
\* Part 8: the text exposition format, EncodeText (handler.go) and ParseText
\* (part_008). A string is a sequence of atoms, an atom being a piece of text
\* that no operation of the two functions looks inside: the punctuation marks
\* the code searches for, a decimal digit, "+Inf", "# HELP ", "# TYPE ", a name
\* suffix ("_total", "_sum", "_count", "_bucket") or a word without any of
\* those. A text is the sequence of its lines (every line EncodeText writes
\* ends with "\n", and bufio.Scanner splits at "\n").
\* ===================================================================
\* Largest sample value of the families that are encoded.
MaxValue == 3

Digits == <<"0", "1", "2", "3">>
\* math.Inf(1), as a number above every finite value of the model.
PosInf == MaxValue + 1
MetricTypeNames == {"counter", "gauge", "histogram", "summary", "untyped"}
NameSuffixes == <<"_bucket", "_sum", "_count", "_total">>

IsDigit(a) == \E i \in 1 .. Len(Digits) : Digits[i] = a
DigitValue(a) == (CHOOSE i \in 1 .. Len(Digits) : Digits[i] = a) - 1

RECURSIVE Flatten(_)
Flatten(ss) == IF ss = <<>> THEN <<>> ELSE Head(ss) \o Flatten(Tail(ss))

\* strings.Index / strings.LastIndex for a one-atom pattern; 0 when absent.
Index(s, a) ==
    IF \E i \in 1 .. Len(s) : s[i] = a
       THEN CHOOSE i \in 1 .. Len(s) : s[i] = a /\ \A j \in 1 .. (i - 1) : s[j] # a
       ELSE 0
LastIndex(s, a) ==
    IF \E i \in 1 .. Len(s) : s[i] = a
       THEN CHOOSE i \in 1 .. Len(s) : s[i] = a /\ \A j \in (i + 1) .. Len(s) : s[j] # a
       ELSE 0

RECURSIVE TrimLeft(_)
TrimLeft(s) == IF s # <<>> /\ Head(s) = " " THEN TrimLeft(Tail(s)) ELSE s
RECURSIVE TrimRight(_)
TrimRight(s) ==
    IF s # <<>> /\ s[Len(s)] = " " THEN TrimRight(SubSeq(s, 1, Len(s) - 1)) ELSE s
TrimSpace(s) == TrimRight(TrimLeft(s))

\* strings.SplitN(s, " ", 2)
SplitN2(s) ==
    LET i == Index(s, " ")
    IN IF i = 0 THEN <<s>> ELSE <<SubSeq(s, 1, i - 1), SubSeq(s, i + 1, Len(s))>>

\* fmt %v of a sample value, strconv.FormatInt / FormatFloat of a bound.
formatFloat(v) == IF v = PosInf THEN <<"+Inf">> ELSE <<Digits[v + 1]>>

\* strconv.ParseFloat on a string of the model: decimal digits only.
RECURSIVE DecimalValue(_)
DecimalValue(s) ==
    IF s = <<>> THEN 0 ELSE 10 * DecimalValue(SubSeq(s, 1, Len(s) - 1)) + DigitValue(s[Len(s)])
ParseFloatText(s) ==
    IF s # <<>> /\ \A i \in 1 .. Len(s) : IsDigit(s[i])
       THEN [ok |-> TRUE, value |-> DecimalValue(s)]
       ELSE [ok |-> FALSE, value |-> 0]

parseValue(s) ==
    IF s = <<"+Inf">> THEN [ok |-> TRUE, value |-> PosInf] ELSE ParseFloatText(s)

\* fmt %q of a label value: quoted, with '"' and '\' escaped.
RECURSIVE EscapeQuoted(_)
EscapeQuoted(s) ==
    IF s = <<>> THEN <<>>
    ELSE (IF Head(s) \in {"\"", "\\"} THEN <<"\\", Head(s)>> ELSE <<Head(s)>>)
             \o EscapeQuoted(Tail(s))
Quote(s) == <<"\"">> \o EscapeQuoted(s) \o <<"\"">>

\* formatLabels: name=%q pairs joined by ",".
RECURSIVE formatLabels(_)
formatLabels(labels) ==
    IF labels = <<>> THEN <<>>
    ELSE Head(labels).name \o <<"=">> \o Quote(Head(labels).value)
             \o (IF Len(labels) > 1 THEN <<",">> \o formatLabels(Tail(labels)) ELSE <<>>)

formatLabelsWithBraces(labels) ==
    IF labels = <<>> THEN <<>> ELSE <<"{">> \o formatLabels(labels) \o <<"}">>

Label(n, v) == [name |-> n, value |-> v]

\* MetricValue: Value for counter and gauge; SampleCount, SampleSum and Buckets
\* for a histogram. (Summaries are not among the encoded families.)
Scalar(v) == [value |-> v, count |-> 0, sum |-> 0, buckets |-> <<>>]

writeMetricLine(name, labels, value) ==
    IF labels = <<>>
       THEN name \o <<" ">> \o formatFloat(value)
       ELSE name \o <<"{">> \o formatLabels(labels) \o <<"}", " ">> \o formatFloat(value)

\* sort.Slice(buckets, UpperBound <): the buckets in ascending order of bound.
RECURSIVE SortBuckets(_)
SortBuckets(bs) ==
    IF bs = <<>> THEN <<>>
    ELSE LET i == CHOOSE i \in 1 .. Len(bs) :
                      \A j \in 1 .. Len(bs) : bs[i].le <= bs[j].le
         IN <<bs[i]>> \o SortBuckets([k \in 1 .. (Len(bs) - 1) |->
                                          IF k < i THEN bs[k] ELSE bs[k + 1]])

\* writeHistogram: one _bucket line per bucket with the le label appended,
\* then _sum and _count; %d of a count prints the digits %v prints.
writeHistogram(name, m) ==
    LET bs == SortBuckets(m.value.buckets)
    IN [i \in 1 .. Len(bs) |->
            name \o <<"_bucket", "{">>
                 \o formatLabels(m.labels \o <<Label(<<"le">>, formatFloat(bs[i].le))>>)
                 \o <<"}", " ">> \o formatFloat(bs[i].cum)]
       \o <<writeMetricLine(name \o <<"_sum">>, m.labels, m.value.sum)>>
       \o <<name \o <<"_count">> \o formatLabelsWithBraces(m.labels) \o <<" ">>
                 \o formatFloat(m.value.count)>>

\* escapeHelp: "\" and newline are escaped.
RECURSIVE escapeHelp(_)
escapeHelp(s) ==
    IF s = <<>> THEN <<>>
    ELSE (CASE Head(s) = "\\" -> <<"\\", "\\">>
            [] Head(s) = "\n" -> <<"\\", "n">>
            [] OTHER -> <<Head(s)>>) \o escapeHelp(Tail(s))

\* The lines EncodeText writes for one family: HELP when there is a help
\* text, TYPE, then the lines of every metric.
FamilyLines(mf) ==
    (IF mf.help # <<>>
        THEN << <<"# HELP ">> \o mf.name \o <<" ">> \o escapeHelp(mf.help) >>
        ELSE <<>>)
    \o << <<"# TYPE ">> \o mf.name \o <<" ", mf.type>> >>
    \o Flatten([i \in 1 .. Len(mf.metrics) |->
                   IF mf.type \in {"counter", "gauge", "untyped"}
                      THEN <<writeMetricLine(mf.name, mf.metrics[i].labels,
                                             mf.metrics[i].value.value)>>
                   ELSE IF mf.type = "histogram"
                      THEN writeHistogram(mf.name, mf.metrics[i])
                   ELSE <<>>])

\* EncodeText: the families in the order of the slice.
EncodeText(families) == Flatten([i \in 1 .. Len(families) |-> FamilyLines(families[i])])

\* splitLabels: the pieces between the commas that are outside quotes; a '"'
\* that does not follow a '\' switches inQuote. acc is the piece in progress
\* and prev the byte before the current one ("" at the start).
RECURSIVE SplitLabelsFrom(_, _, _, _)
SplitLabelsFrom(s, acc, inQuote, prev) ==
    IF s = <<>>
       THEN (IF acc # <<>> THEN <<acc>> ELSE <<>>)
       ELSE LET c == Head(s)
                q == IF c = "\"" /\ prev # "\\" THEN ~inQuote ELSE inQuote
            IN IF c = "," /\ ~q
                  THEN <<acc>> \o SplitLabelsFrom(Tail(s), <<>>, q, c)
                  ELSE SplitLabelsFrom(Tail(s), Append(acc, c), q, c)
splitLabels(s) == SplitLabelsFrom(s, <<>>, FALSE, "")

\* One piece of the label string: nothing without "=", else the name before
\* it and the value after it, without its surrounding quotes.
ParseLabel(part) ==
    LET eqIdx == Index(part, "=")
        v == SubSeq(part, eqIdx + 1, Len(part))
    IN IF eqIdx = 0 THEN <<>>
       ELSE <<Label(SubSeq(part, 1, eqIdx - 1),
                    IF Len(v) >= 2 /\ v[1] = "\"" /\ v[Len(v)] = "\""
                       THEN SubSeq(v, 2, Len(v) - 1) ELSE v)>>

\* parseNameAndLabels: s[idx+1 : len(s)-1] is a slice with low > high, hence a
\* run-time panic, when "{" is the last byte of s.
parseNameAndLabels(s) ==
    LET idx == Index(s, "{")
        labelsStr == SubSeq(s, idx + 1, Len(s) - 1)
        parts == splitLabels(labelsStr)
    IN IF idx = 0 THEN [panic |-> FALSE, name |-> s, labels |-> <<>>]
       ELSE IF idx = Len(s) THEN [panic |-> TRUE, name |-> <<>>, labels |-> <<>>]
       ELSE [panic |-> FALSE, name |-> SubSeq(s, 1, idx - 1),
             labels |-> Flatten([i \in 1 .. Len(parts) |-> ParseLabel(parts[i])])]

\* parseMetricLine: the value after the last space, name and labels before it.
parseMetricLine(line) ==
    LET idx == LastIndex(line, " ")
        value == parseValue(TrimSpace(SubSeq(line, idx + 1, Len(line))))
        nl == parseNameAndLabels(TrimSpace(SubSeq(line, 1, idx - 1)))
    IN IF idx = 0 \/ ~value.ok
          THEN [err |-> TRUE, panic |-> FALSE, name |-> <<>>, labels |-> <<>>, value |-> 0]
          ELSE [err |-> FALSE, panic |-> nl.panic, name |-> nl.name,
                labels |-> nl.labels, value |-> value.value]

parseMetricType(s) ==
    IF Len(s) = 1 /\ s[1] \in MetricTypeNames \ {"untyped"} THEN s[1] ELSE "untyped"

\* unescapeHelp: "\n" becomes a newline, then "\\" becomes "\".
RECURSIVE ReplaceNewlines(_)
ReplaceNewlines(s) ==
    IF Len(s) >= 2 /\ s[1] = "\\" /\ s[2] = "n"
       THEN <<"\n">> \o ReplaceNewlines(SubSeq(s, 3, Len(s)))
       ELSE IF s = <<>> THEN <<>> ELSE <<Head(s)>> \o ReplaceNewlines(Tail(s))
RECURSIVE ReplaceBackslashes(_)
ReplaceBackslashes(s) ==
    IF Len(s) >= 2 /\ s[1] = "\\" /\ s[2] = "\\"
       THEN <<"\\">> \o ReplaceBackslashes(SubSeq(s, 3, Len(s)))
       ELSE IF s = <<>> THEN <<>> ELSE <<Head(s)>> \o ReplaceBackslashes(Tail(s))
unescapeHelp(s) == ReplaceBackslashes(ReplaceNewlines(s))

\* The name without its "_bucket", "_sum", "_count" or "_total" suffix.
BaseName(name) ==
    IF name # <<>> /\ \E i \in 1 .. Len(NameSuffixes) : name[Len(name)] = NameSuffixes[i]
       THEN SubSeq(name, 1, Len(name) - 1)
       ELSE name

NewFamily(name, typ) == [name |-> name, help |-> <<>>, type |-> typ, metrics |-> <<>>]

\* families[name], created with the given type when the map has no such key
\* (a family created by a HELP or TYPE line has the zero MetricType, counter).
FamilyAt(families, name, typ) ==
    IF name \in DOMAIN families THEN families[name] ELSE NewFamily(name, typ)

Put(families, name, mf) ==
    [n \in (DOMAIN families) \cup {name} |-> IF n = name THEN mf ELSE families[n]]

\* The body of ParseText's loop for one line of the input: the map of
\* families after it, and whether the line made the parser panic.
ParseLine(families, rawLine) ==
    LET line == TrimSpace(rawLine)
        parts == SplitN2(SubSeq(line, 2, Len(line)))
        name == parts[1]
        m == parseMetricLine(line)
        base == BaseName(m.name)
        Same == [panic |-> FALSE, families |-> families]
    IN IF line = <<>> THEN Same
       ELSE IF line[1] = "# HELP "
          THEN [panic |-> FALSE,
                families |-> Put(families, name,
                    [FamilyAt(families, name, "counter") EXCEPT
                        !.help = IF Len(parts) > 1 THEN unescapeHelp(parts[2]) ELSE <<>>])]
       ELSE IF line[1] = "# TYPE "
          THEN [panic |-> FALSE,
                families |-> Put(families, name,
                    [FamilyAt(families, name, "counter") EXCEPT
                        !.type = parseMetricType(IF Len(parts) > 1 THEN parts[2] ELSE <<>>)])]
       ELSE IF line[1] = "#" THEN Same
       ELSE IF m.err THEN Same
       ELSE IF m.panic THEN [panic |-> TRUE, families |-> families]
       ELSE [panic |-> FALSE,
             families |-> Put(families, base,
                 [FamilyAt(families, base, "untyped") EXCEPT
                     !.metrics = Append(@, [labels |-> m.labels, value |-> Scalar(m.value)])])]

\* ParseText on a whole text: line after line; a panic ends it.
RECURSIVE ParseLines(_, _)
ParseLines(families, lines) ==
    IF lines = <<>> THEN [panic |-> FALSE, families |-> families]
    ELSE LET r == ParseLine(families, Head(lines))
         IN IF r.panic THEN r ELSE ParseLines(r.families, Tail(lines))

NoTextFamilies == [n \in {} |-> 0]

\* ------------------------------------------------- encode, then decode
\* Families one text holds at most.
MaxTextFamilies == 2

Metric1(labels, v) == <<[labels |-> labels, value |-> Scalar(v)]>>

\* The families that are encoded: plain and labeled counters and gauges, a
\* counter named with the customary _total suffix, a label value that holds a
\* quote, and a histogram with the custom boundaries 1 and 2.
FamilyPool ==
    { [name |-> <<"up">>, help |-> <<>>, type |-> "gauge", metrics |-> Metric1(<<>>, 1)],
      [name |-> <<"temp">>, help |-> <<"degrees">>, type |-> "gauge",
       metrics |-> Metric1(<<Label(<<"zone">>, <<"north">>)>>, 3)],
      [name |-> <<"jobs">>, help |-> <<>>, type |-> "counter",
       metrics |-> Metric1(<<Label(<<"method">>, <<"GET">>), Label(<<"code">>, <<"ok">>)>>, 2)],
      [name |-> <<"requests", "_total">>, help |-> <<>>, type |-> "counter",
       metrics |-> Metric1(<<>>, 3)],
      [name |-> <<"build">>, help |-> <<>>, type |-> "gauge",
       metrics |-> Metric1(<<Label(<<"version">>, <<"v", "\"", "rc">>)>>, 1)],
      [name |-> <<"latency">>, help |-> <<>>, type |-> "histogram",
       metrics |-> << [labels |-> <<>>,
                       value |-> [value |-> 0, count |-> 2, sum |-> 3,
                                  buckets |-> << [le |-> 1, cum |-> 1], [le |-> 2, cum |-> 2],
                                                 [le |-> PosInf, cum |-> 2] >>]] >>] }

\* Family sets of distinct names, in any order.
TextInputs ==
    UNION {{fs \in [1 .. n -> FamilyPool] : \A i, j \in 1 .. n : fs[i] = fs[j] => i = j} :
              n \in 1 .. MaxTextFamilies}

\* Lines that are not well formed: no value, a value that is no number, a
\* label block that is opened and not closed, a label without "=", a label
\* value whose closing quote and brace are missing.
MalformedLines ==
    { <<"up">>,
      <<"up", " ", "x">>,
      <<"up", "{", " ", "1">>,
      <<"up", "{", "zone", "}", " ", "1">>,
      <<"up", "{", "zone", "=", "\"", "north", " ", "1">> }

\* Positions at which a line can be inserted into an encoded text.
TextPositions ==
    LET lens == {Len(EncodeText(fs)) : fs \in TextInputs}
    IN 1 .. ((CHOOSE n \in lens : \A m \in lens : m <= n) + 1)

InsertAt(s, k, x) == SubSeq(s, 1, k - 1) \o <<x>> \o SubSeq(s, k, Len(s))
RemoveAt(s, k) == SubSeq(s, 1, k - 1) \o SubSeq(s, k + 1, Len(s))

InitText ==
    /\ tFamilies \in TextInputs
    /\ tText = <<>>
    /\ tBad = 0
    /\ tPc = "start"
    /\ tPos = 0
    /\ tParsed = NoTextFamilies

IdleText ==
    /\ tFamilies = <<>>
    /\ tText = <<>>
    /\ tBad = 0
    /\ tPc = "start"
    /\ tPos = 0
    /\ tParsed = NoTextFamilies

TextStep ==
    UNCHANGED <<regVars, gatherVars, counterVars, multiVars, handlerVars, vecVars, namesVars,
                histVars, sumVars, restVars>>

\* EncodeText(w, families) writes the text.
TextEncode ==
    /\ TextStep
    /\ tPc = "start"
    /\ tText' = EncodeText(tFamilies)
    /\ tPc' = "encoded"
    /\ UNCHANGED <<tFamilies, tBad, tPos, tParsed>>

\* The text reaches the reader with one malformed line among its lines.
TextCorrupt(k, line) ==
    /\ TextStep
    /\ tPc = "encoded"
    /\ tBad = 0
    /\ k \in 1 .. (Len(tText) + 1)
    /\ tText' = InsertAt(tText, k, line)
    /\ tBad' = k
    /\ UNCHANGED <<tFamilies, tPc, tPos, tParsed>>

\* ParseText(r) is called: the map is made, the scanner is at the start.
ParseTextCall ==
    /\ TextStep
    /\ tPc = "encoded"
    /\ tPc' = "scanning"
    /\ UNCHANGED <<tFamilies, tText, tBad, tPos, tParsed>>

\* scanner.Scan() yields the next line and the loop body runs on it; a panic
\* in the body leaves ParseText through the panic.
ParseTextScan ==
    /\ TextStep
    /\ tPc = "scanning"
    /\ tPos < Len(tText)
    /\ LET r == ParseLine(tParsed, tText[tPos + 1])
       IN /\ tParsed' = r.families
          /\ tPc' = IF r.panic THEN "panicked" ELSE "scanning"
    /\ tPos' = tPos + 1
    /\ UNCHANGED <<tFamilies, tText, tBad>>

\* scanner.Scan() returns false at the end of the input: return families, nil.
ParseTextReturn ==
    /\ TextStep
    /\ tPc = "scanning"
    /\ tPos = Len(tText)
    /\ tPc' = "returned"
    /\ UNCHANGED <<tFamilies, tText, tBad, tPos, tParsed>>

TextNext ==
    \/ TextEncode
    \/ \E k \in TextPositions : \E line \in MalformedLines : TextCorrupt(k, line)
    \/ ParseTextCall
    \/ ParseTextScan
    \/ ParseTextReturn

\* ===================================================================
\* Part 9: one metricSummary and its reservoir of samples. Observe runs under
\* vs.mu.Lock from its first to its last statement, so a call is one step.
\* ===================================================================
\* maxSamples, the capacity of the reservoir (1024 in newSummary).
MaxSamples == 2
\* Observe calls in one run.
MaxSummaryObservations == 5

SummaryValues == {1, 2, 3}

InitSummary ==
    /\ sSamples = <<>>
    /\ sSampleIdx = 0
    /\ sCount = 0
    /\ sSum = 0
    /\ sObserved = <<>>

SummaryStep ==
    UNCHANGED <<regVars, gatherVars, counterVars, multiVars, handlerVars, vecVars, namesVars,
                histVars, textVars, restVars>>

\* An Observe that, once the reservoir is full, always overwrites the slot
\* vs.sampleIdx without moving the index on.
SummaryObserveSameSlot(val) ==
    /\ SummaryStep
    /\ sCount < MaxSummaryObservations
    /\ sCount' = sCount + 1
    /\ sSum' = sSum + val
    /\ sObserved' = Append(sObserved, val)
    /\ IF Len(sSamples) < MaxSamples
          THEN /\ sSamples' = Append(sSamples, val)
               /\ UNCHANGED sSampleIdx
          ELSE /\ sSamples' = [sSamples EXCEPT ![sSampleIdx + 1] = val]
               /\ UNCHANGED sSampleIdx

\* metricSummary.Observe(val): count and sum are updated; the value is
\* appended while the reservoir has room, and otherwise stored at sampleIdx,
\* which then moves on modulo maxSamples.
SummaryObserve(val) ==
    /\ SummaryStep
    /\ sCount < MaxSummaryObservations
    /\ sCount' = sCount + 1
    /\ sSum' = sSum + val
    /\ sObserved' = Append(sObserved, val)
    /\ IF MaxSamples <= 0
          THEN UNCHANGED <<sSamples, sSampleIdx>>
          ELSE IF Len(sSamples) < MaxSamples
          THEN /\ sSamples' = Append(sSamples, val)
               /\ UNCHANGED sSampleIdx
          ELSE /\ sSamples' = [sSamples EXCEPT ![sSampleIdx + 1] = val]
               /\ sSampleIdx' = (sSampleIdx + 1) % MaxSamples

SummaryNext == \E val \in SummaryValues : SummaryObserve(val)

\* ===================================================== specifications
\* ContextRegistry with one GatherWithContext call.
\* A histogram with buckets [1, 5] that nobody uses.
IdleHist == InitHist /\ hgBuckets = <<10, 50>>

\* ===================================================================
\* Part 10: one ContextRegistry, pedantic or not, and the results of the
\* Register, Unregister and Gather calls a caller makes on it. Each call
\* holds r.mu for its whole body (Gather for its snapshot), so each is one
\* step.
\* ===================================================================
\* Collector IDs the registry hands out at most.
MaxRegistrations == 3

PedIDs == 0 .. (MaxRegistrations - 1)
\* The collectors of the caller: two counters, a second collector for the
\* descriptor of the first, and a collector that describes nothing.
PedCollectors == {"counter1", "counter2", "twin", "unchecked"}
\* What c.Describe sends: the String() of each descriptor.
Describe(c) ==
    CASE c = "counter1" -> {"duplicate_metric"}
      [] c = "counter2" -> {"test_counter"}
      [] c = "twin" -> {"duplicate_metric"}
      [] OTHER -> {}

NoPedEntries == [i \in PedIDs |-> "none"]
PedEntries(m) == {i \in PedIDs : m[i] # "none"}
\* The collectors a map holds.
Registered(m) == {m[i] : i \in PedEntries(m)}
NoPedCall == [op |-> "none", c |-> "none", ok |-> FALSE, before |-> NoPedEntries, gone |-> {}]

InitPedState ==
    /\ pCollectors = NoPedEntries
    /\ pNextID = 0
    /\ pGone = {}
    /\ pLast = NoPedCall

InitPed == pPedantic \in BOOLEAN /\ InitPedState
IdlePed == pPedantic = FALSE /\ InitPedState

PedStep ==
    UNCHANGED <<regVars, gatherVars, counterVars, multiVars, handlerVars, vecVars, namesVars,
                histVars, textVars, sumVars, lockVars, handleVars>>

\* The pedantic loop of Register: some descriptor of an existing collector
\* has the String() of a descriptor of c.
DescriptorClash(m, c) == \E i \in PedEntries(m) : Describe(m[i]) \cap Describe(c) # {}

\* A Register that never looks at the descriptors.
RegisterUnchecked(c) ==
    /\ PedStep
    /\ pNextID < MaxRegistrations
    /\ pCollectors' = [pCollectors EXCEPT ![pNextID] = c]
    /\ pNextID' = pNextID + 1
    /\ pGone' = pGone \ {c}
    /\ pLast' = [op |-> "Register", c |-> c, ok |-> TRUE, before |-> pCollectors, gone |-> pGone]
    /\ UNCHANGED pPedantic

\* ContextRegistry.Register: in pedantic mode a descriptor clash returns an
\* error before anything is stored; otherwise the entry goes under nextID.
RegisterCall(c) ==
    /\ PedStep
    /\ pNextID < MaxRegistrations
    /\ IF pPedantic /\ DescriptorClash(pCollectors, c)
       THEN /\ pLast' = [op |-> "Register", c |-> c, ok |-> FALSE, before |-> pCollectors,
                         gone |-> pGone]
            /\ UNCHANGED <<pCollectors, pNextID, pGone>>
       ELSE /\ pCollectors' = [pCollectors EXCEPT ![pNextID] = c]
            /\ pNextID' = pNextID + 1
            /\ pGone' = pGone \ {c}
            /\ pLast' = [op |-> "Register", c |-> c, ok |-> TRUE, before |-> pCollectors,
                         gone |-> pGone]
    /\ UNCHANGED pPedantic

\* ContextRegistry.Unregister: deletes the first entry the range over the
\* map meets that holds c (any of them) and returns true; false on a miss.
UnregisterCall(c) ==
    /\ PedStep
    /\ IF c \in Registered(pCollectors)
       THEN /\ \E i \in PedEntries(pCollectors) :
                  /\ pCollectors[i] = c
                  /\ pCollectors' = [pCollectors EXCEPT ![i] = "none"]
            /\ pGone' = pGone \cup {c}
            /\ pLast' = [op |-> "Unregister", c |-> c, ok |-> TRUE, before |-> pCollectors,
                         gone |-> pGone]
       ELSE /\ pLast' = [op |-> "Unregister", c |-> c, ok |-> FALSE, before |-> pCollectors,
                         gone |-> pGone]
            /\ UNCHANGED <<pCollectors, pGone>>
    /\ UNCHANGED <<pPedantic, pNextID>>

\* GatherWithContext up to r.mu.RUnlock(): the entries it copies are the
\* collectors it will call.
GatherCall ==
    /\ PedStep
    /\ pLast' = [op |-> "Gather", c |-> "none", ok |-> TRUE, before |-> pCollectors,
                 gone |-> pGone]
    /\ UNCHANGED <<pPedantic, pCollectors, pNextID, pGone>>

PedNext ==
    \/ \E c \in PedCollectors : RegisterCall(c)
    \/ \E c \in PedCollectors : UnregisterCall(c)
    \/ GatherCall

\* ===================================================================
\* Part 11: the mutexes of one histogramVec (v.mu), its registry (hpr.mu, a
\* sync.RWMutex) and its children (vh.mu, a sync.RWMutex each), taken by
\* goroutines that call With, Observe, Register and Gather. Asking for a
\* lock and getting it are two steps. A sync.RWMutex admits no new reader
\* while a writer waits.
\* ===================================================================
\* Goroutines that call into the vector, the registry and the children.
NumLockers == 3

Lockers == 1 .. NumLockers
\* Keys of the children the callers ask for.
LockKeys == {"a", "b"}

\* Goroutines inside Lock() of hpr.mu, not yet holding it.
RegPending ==
    {g \in Lockers : lPc[g] \in {"withRegWait", "registerWait"}}
\* Goroutines inside Lock() of the vh.mu of child k.
PrimPending(k) == {g \in Lockers : lPc[g] = "observeWait" /\ lKey[g] = k}

InitLocks ==
    /\ lPc = [g \in Lockers |-> "idle"]
    /\ lKey = [g \in Lockers |-> "none"]
    /\ lTodo = [g \in Lockers |-> {}]
    /\ lChildren = {}
    /\ lVecMu = 0
    /\ lRegWriter = 0
    /\ lRegReaders = {}
    /\ lPrimWriter = [k \in LockKeys |-> 0]
    /\ lPrimReaders = [k \in LockKeys |-> {}]

LockStep ==
    UNCHANGED <<regVars, gatherVars, counterVars, multiVars, handlerVars, vecVars, namesVars,
                histVars, textVars, sumVars, pedVars, handleVars>>

\* histogramVec.With / WithLabelValues: getOrCreate computes the key and
\* asks for v.mu.
LockWith(g, k) ==
    /\ LockStep
    /\ lPc[g] = "idle"
    /\ lPc' = [lPc EXCEPT ![g] = "vecWait"]
    /\ lKey' = [lKey EXCEPT ![g] = k]
    /\ UNCHANGED <<lTodo, lChildren, lVecMu, lRegWriter, lRegReaders, lPrimWriter,
                   lPrimReaders>>

\* v.mu.Lock() returns.
LockVecLock(g) ==
    /\ LockStep
    /\ lPc[g] = "vecWait"
    /\ lVecMu = 0
    /\ lVecMu' = g
    /\ lPc' = [lPc EXCEPT ![g] = "vecHeld"]
    /\ UNCHANGED <<lKey, lTodo, lChildren, lRegWriter, lRegReaders, lPrimWriter, lPrimReaders>>

\* The lookup under v.mu: a hit returns with the deferred Unlock; a miss
\* builds the histogram and calls RegisterLabeledHistogram, which asks for
\* hpr.mu.Lock while v.mu is held.
LockLookup(g) ==
    /\ LockStep
    /\ lPc[g] = "vecHeld"
    /\ IF lKey[g] \in lChildren
       THEN /\ lVecMu' = 0
            /\ lPc' = [lPc EXCEPT ![g] = "idle"]
            /\ lKey' = [lKey EXCEPT ![g] = "none"]
       ELSE /\ lPc' = [lPc EXCEPT ![g] = "withRegWait"]
            /\ UNCHANGED <<lVecMu, lKey>>
    /\ UNCHANGED <<lTodo, lChildren, lRegWriter, lRegReaders, lPrimWriter, lPrimReaders>>

\* registry.Register / registerName: asks for hpr.mu.Lock holding nothing.
LockRegister(g) ==
    /\ LockStep
    /\ lPc[g] = "idle"
    /\ lPc' = [lPc EXCEPT ![g] = "registerWait"]
    /\ UNCHANGED <<lKey, lTodo, lChildren, lVecMu, lRegWriter, lRegReaders, lPrimWriter,
                   lPrimReaders>>

\* hpr.mu.Lock() returns: no reader and no writer holds the mutex.
LockRegLock(g) ==
    /\ LockStep
    /\ g \in RegPending
    /\ lRegWriter = 0
    /\ lRegReaders = {}
    /\ lRegWriter' = g
    /\ lPc' = [lPc EXCEPT ![g] = IF lPc[g] = "withRegWait" THEN "withRegHeld" ELSE "registerHeld"]
    /\ UNCHANGED <<lKey, lTodo, lChildren, lVecMu, lRegReaders, lPrimWriter, lPrimReaders>>

\* The body under hpr.mu.Lock and the deferred Unlock: RegisterLabeledHistogram
\* stores the entry; registerName stores the name.
LockRegUnlock(g) ==
    /\ LockStep
    /\ lPc[g] \in {"withRegHeld", "registerHeld"}
    /\ lRegWriter' = 0
    /\ IF lPc[g] = "withRegHeld"
       THEN /\ lChildren' = lChildren \cup {lKey[g]}
            /\ lPc' = [lPc EXCEPT ![g] = "vecStore"]
       ELSE /\ lPc' = [lPc EXCEPT ![g] = "idle"]
            /\ UNCHANGED lChildren
    /\ UNCHANGED <<lKey, lTodo, lVecMu, lRegReaders, lPrimWriter, lPrimReaders>>

\* v.histograms[key] = histogram; return, with the deferred v.mu.Unlock().
LockVecStore(g) ==
    /\ LockStep
    /\ lPc[g] = "vecStore"
    /\ lVecMu' = 0
    /\ lPc' = [lPc EXCEPT ![g] = "idle"]
    /\ lKey' = [lKey EXCEPT ![g] = "none"]
    /\ UNCHANGED <<lTodo, lChildren, lRegWriter, lRegReaders, lPrimWriter, lPrimReaders>>

\* metricHistogram.Observe on an existing child: asks for vh.mu.Lock.
LockObserve(g, k) ==
    /\ LockStep
    /\ lPc[g] = "idle"
    /\ k \in lChildren
    /\ lPc' = [lPc EXCEPT ![g] = "observeWait"]
    /\ lKey' = [lKey EXCEPT ![g] = k]
    /\ UNCHANGED <<lTodo, lChildren, lVecMu, lRegWriter, lRegReaders, lPrimWriter,
                   lPrimReaders>>

\* vh.mu.Lock() returns.
LockPrimLock(g) ==
    /\ LockStep
    /\ lPc[g] = "observeWait"
    /\ lPrimWriter[lKey[g]] = 0
    /\ lPrimReaders[lKey[g]] = {}
    /\ lPrimWriter' = [lPrimWriter EXCEPT ![lKey[g]] = g]
    /\ lPc' = [lPc EXCEPT ![g] = "observeHeld"]
    /\ UNCHANGED <<lKey, lTodo, lChildren, lVecMu, lRegWriter, lRegReaders, lPrimReaders>>

\* The updates of Observe and the deferred vh.mu.Unlock().
LockPrimUnlock(g) ==
    /\ LockStep
    /\ lPc[g] = "observeHeld"
    /\ lPrimWriter' = [lPrimWriter EXCEPT ![lKey[g]] = 0]
    /\ lPc' = [lPc EXCEPT ![g] = "idle"]
    /\ lKey' = [lKey EXCEPT ![g] = "none"]
    /\ UNCHANGED <<lTodo, lChildren, lVecMu, lRegWriter, lRegReaders, lPrimReaders>>

\* registry.Gather: asks for hpr.mu.RLock.
LockGather(g) ==
    /\ LockStep
    /\ lPc[g] = "idle"
    /\ lPc' = [lPc EXCEPT ![g] = "gatherWait"]
    /\ UNCHANGED <<lKey, lTodo, lChildren, lVecMu, lRegWriter, lRegReaders, lPrimWriter,
                   lPrimReaders>>

\* hpr.mu.RLock() returns: no writer holds the mutex and none waits for it.
\* The entries of hpr.histograms are the ones the loop will visit.
LockRegRLock(g) ==
    /\ LockStep
    /\ lPc[g] = "gatherWait"
    /\ lRegWriter = 0
    /\ RegPending = {}
    /\ lRegReaders' = lRegReaders \cup {g}
    /\ lTodo' = [lTodo EXCEPT ![g] = lChildren]
    /\ lPc' = [lPc EXCEPT ![g] = "gatherLoop"]
    /\ UNCHANGED <<lKey, lChildren, lVecMu, lRegWriter, lPrimWriter, lPrimReaders>>

\* An entry.histogram.ToMetric call that takes hpr.mu.Lock on its way.
LockToMetricUpgrade(g, k) ==
    /\ LockStep
    /\ lPc[g] = "gatherLoop"
    /\ k \in lTodo[g]
    /\ lTodo' = [lTodo EXCEPT ![g] = @ \ {k}]
    /\ lPc' = [lPc EXCEPT ![g] = "registerWait"]
    /\ UNCHANGED <<lKey, lChildren, lVecMu, lRegWriter, lRegReaders, lPrimWriter,
                   lPrimReaders>>

\* The next entry of the loop (map order: any): entry.histogram.ToMetric
\* asks for vh.mu.RLock while hpr.mu is read-locked.
LockToMetric(g, k) ==
    /\ LockStep
    /\ lPc[g] = "gatherLoop"
    /\ k \in lTodo[g]
    /\ lTodo' = [lTodo EXCEPT ![g] = @ \ {k}]
    /\ lKey' = [lKey EXCEPT ![g] = k]
    /\ lPc' = [lPc EXCEPT ![g] = "toMetricWait"]
    /\ UNCHANGED <<lChildren, lVecMu, lRegWriter, lRegReaders, lPrimWriter, lPrimReaders>>

\* vh.mu.RLock() returns: no writer holds the child's mutex and none waits.
LockPrimRLock(g) ==
    /\ LockStep
    /\ lPc[g] = "toMetricWait"
    /\ lPrimWriter[lKey[g]] = 0
    /\ PrimPending(lKey[g]) = {}
    /\ lPrimReaders' = [lPrimReaders EXCEPT ![lKey[g]] = @ \cup {g}]
    /\ lPc' = [lPc EXCEPT ![g] = "toMetricHeld"]
    /\ UNCHANGED <<lKey, lTodo, lChildren, lVecMu, lRegWriter, lRegReaders, lPrimWriter>>

\* ToMetric returns with the deferred vh.mu.RUnlock().
LockPrimRUnlock(g) ==
    /\ LockStep
    /\ lPc[g] = "toMetricHeld"
    /\ lPrimReaders' = [lPrimReaders EXCEPT ![lKey[g]] = @ \ {g}]
    /\ lKey' = [lKey EXCEPT ![g] = "none"]
    /\ lPc' = [lPc EXCEPT ![g] = "gatherLoop"]
    /\ UNCHANGED <<lTodo, lChildren, lVecMu, lRegWriter, lRegReaders, lPrimWriter>>

\* The loop is over: return families, with the deferred hpr.mu.RUnlock().
LockRegRUnlock(g) ==
    /\ LockStep
    /\ lPc[g] = "gatherLoop"
    /\ lTodo[g] = {}
    /\ lRegReaders' = lRegReaders \ {g}
    /\ lPc' = [lPc EXCEPT ![g] = "idle"]
    /\ UNCHANGED <<lKey, lTodo, lChildren, lVecMu, lRegWriter, lPrimWriter, lPrimReaders>>

\* A goroutine enters a call.
LockCalls ==
    \/ \E g \in Lockers : \E k \in LockKeys : LockWith(g, k)
    \/ \E g \in Lockers : \E k \in LockKeys : LockObserve(g, k)
    \/ \E g \in Lockers : LockRegister(g)
    \/ \E g \in Lockers : LockGather(g)

\* A goroutine goes on inside its call.
LockProgress ==
    \/ \E g \in Lockers : LockVecLock(g)
    \/ \E g \in Lockers : LockLookup(g)
    \/ \E g \in Lockers : LockRegLock(g)
    \/ \E g \in Lockers : LockRegUnlock(g)
    \/ \E g \in Lockers : LockVecStore(g)
    \/ \E g \in Lockers : LockPrimLock(g)
    \/ \E g \in Lockers : LockPrimUnlock(g)
    \/ \E g \in Lockers : LockRegRLock(g)
    \/ \E g \in Lockers : \E k \in LockKeys : LockToMetric(g, k)
    \/ \E g \in Lockers : LockPrimRLock(g)
    \/ \E g \in Lockers : LockPrimRUnlock(g)
    \/ \E g \in Lockers : LockRegRUnlock(g)

LockNext == LockCalls \/ LockProgress

\* ===================================================================
\* Part 12: NewCounter of the registry (part_015) and of the
\* HighPerfMetricsFactory, the counters it hands to the caller, and the
\* counters the registry's map holds and Gather reads.
\* ===================================================================
\* Counters NewCounter creates at most.
MaxHandles == 3
\* Inc calls made through one counter at most.
MaxIncs == 1

HandleIds == 1 .. MaxHandles
HandleNames == {"requests", "errors"}
HandleImpls == {"registry", "HighPerfMetricsFactory"}

InitHandleState ==
    /\ xStored = [n \in HandleNames |-> 0]
    /\ xNext = 1
    /\ xName = [h \in HandleIds |-> "none"]
    /\ xValue = [h \in HandleIds |-> 0]
    /\ xGathered = {}
    /\ xLast = "none"

InitHandles == xImpl \in HandleImpls /\ InitHandleState
IdleHandles == xImpl = "registry" /\ InitHandleState

HandlesStep ==
    UNCHANGED <<regVars, gatherVars, counterVars, multiVars, handlerVars, vecVars, namesVars,
                histVars, textVars, sumVars, pedVars, lockVars>>

\* registry.RegisterLabeledCounter with nil labels: the entry of the name is
\* replaced. VictoriaMetricsRegistry.RegisterCounter: an existing entry is
\* kept and the new counter is not stored.
RegisterCounter(stored, name, counter) ==
    IF xImpl = "registry" \/ stored[name] = 0
    THEN [stored EXCEPT ![name] = counter]
    ELSE stored

\* NewCounter(name, help): a new counter is built, handed to RegisterCounter
\* and returned, whatever RegisterCounter did or returned.
HandleNewCounter(name) ==
    /\ HandlesStep
    /\ xNext <= MaxHandles
    /\ xName' = [xName EXCEPT ![xNext] = name]
    /\ xStored' = RegisterCounter(xStored, name, xNext)
    /\ xNext' = xNext + 1
    /\ xLast' = "New"
    /\ UNCHANGED <<xImpl, xValue, xGathered>>

\* Inc() through a counter NewCounter returned.
HandleInc(h) ==
    /\ HandlesStep
    /\ h < xNext
    /\ xValue[h] < MaxIncs
    /\ xValue' = [xValue EXCEPT ![h] = @ + 1]
    /\ xLast' = "Inc"
    /\ UNCHANGED <<xImpl, xStored, xNext, xName, xGathered>>

\* Gather / exposition: one sample per entry of the map, read from the
\* counter the entry holds.
HandleGather ==
    /\ HandlesStep
    /\ xGathered' = {<<n, xStored[n], xValue[xStored[n]]>> : n \in {m \in HandleNames : xStored[m] # 0}}
    /\ xLast' = "Gather"
    /\ UNCHANGED <<xImpl, xStored, xNext, xName, xValue>>

HandlesNext ==
    \/ \E name \in HandleNames : HandleNewCounter(name)
    \/ \E h \in HandleIds : HandleInc(h)
    \/ HandleGather

IdleRest == IdlePed /\ InitLocks /\ IdleHandles
IdleMore == IdleText /\ InitSummary /\ IdleRest

IdleExt == IdleHandler /\ IdleVec /\ InitNames /\ IdleHist /\ IdleMore

Init == InitRegistry /\ InitGather /\ IdleCounter /\ IdleMulti /\ IdleExt
Spec == Init /\ [][Next]_vars

\* One counter and its goroutines.
InitC == InitRegistry /\ InitGather /\ ctxErr = "nil" /\ InitCounter /\ IdleMulti /\ IdleExt
SpecCounter == InitC /\ [][CounterNext]_vars

\* One multi-namespace gatherer.
InitM == InitRegistry /\ InitGather /\ ctxErr = "nil" /\ IdleCounter /\ InitMulti /\ IdleExt
SpecMulti == InitM /\ [][MultiNext]_vars

\* The parts of Spec, SpecCounter and SpecMulti, all idle.
IdleBase == InitRegistry /\ InitGather /\ ctxErr = "nil" /\ IdleCounter /\ IdleMulti

\* One metrics handler and its requests.
InitH == IdleBase /\ InitHandler /\ IdleVec /\ InitNames /\ IdleHist /\ IdleMore
SpecHandler == InitH /\ [][HandlerNext]_vars

\* One labeled vector and its callers.
InitV == IdleBase /\ IdleHandler /\ InitVec /\ InitNames /\ IdleHist /\ IdleMore
SpecVec == InitV /\ [][VecNext]_vars

\* One registry and its caller.
InitN == IdleBase /\ IdleExt
SpecNames == InitN /\ [][NamesNext]_vars

\* One histogram, its observers and a Gather.
InitHg == IdleBase /\ IdleHandler /\ IdleVec /\ InitNames /\ InitHist /\ IdleMore
SpecHist == InitHg /\ [][HistNext]_vars

\* One family set encoded by EncodeText and decoded by ParseText.
InitT ==
    IdleBase /\ IdleHandler /\ IdleVec /\ InitNames /\ IdleHist /\ InitText /\ InitSummary
        /\ IdleRest
SpecText == InitT /\ [][TextNext]_vars

\* One metricSummary.
SpecSummary == InitN /\ [][SummaryNext]_vars

\* One ContextRegistry, pedantic or not, and its caller.
InitP ==
    IdleBase /\ IdleHandler /\ IdleVec /\ InitNames /\ IdleHist /\ IdleText /\ InitSummary
        /\ InitPed /\ InitLocks /\ IdleHandles
SpecPedantic == InitP /\ [][PedNext]_vars

\* One histogramVec, its registry, its children and their callers.
SpecLocks == InitN /\ [][LockNext]_vars

\* The counters NewCounter returned and the registry behind them.
InitX ==
    IdleBase /\ IdleHandler /\ IdleVec /\ InitNames /\ IdleHist /\ IdleText /\ InitSummary
        /\ IdlePed /\ InitLocks /\ InitHandles
SpecHandles == InitX /\ [][HandlesNext]_vars

\* ================================================================ claims
Panicked(e) == gpc[e] = "panicked"
PlainInCollect(e) == e \in Entries(snapshot) /\ snapshot[e] = "plain" /\ gpc[e] = "collecting"

\* C1: once the deadline has passed while a plain collector is still inside
\* Collect, the caller of GatherWithContext is not blocked: it has a step to
\* take (its poll and return) without the collector doing anything.
C1_ReturnsAtDeadline ==
    (Alive /\ ctxErr = "DeadlineExceeded" /\ Collecting /\ \E e \in IDs : PlainInCollect(e))
        => ENABLED MainNext

\* C2: a GatherWithContext call never blocks for good: whenever the call is
\* in progress and no Collect call is still running, the caller or one of the
\* goroutines of the gather can take a step.
C2_GatherNeverStuck ==
    (Alive /\ pc \notin {"idle", "returned"} /\ \A e \in IDs : gpc[e] # "collecting")
        => ENABLED (MainNext \/ InternalNext)

\* C3: when a collector's Collect has panicked, no panic escapes the gather
\* or a goroutine it started (the process is not brought down).
C3_NoPanicEscapes ==
    (\E e \in IDs : Panicked(e)) => crashed = "none"

\* C4: a gather called with a context that is already cancelled or expired
\* invokes no collector and returns (nil, ctx.Err()).
C4_CancelledBeforeStart ==
    (pc # "idle" /\ ctxAtCall # "nil") =>
        /\ \A e \in IDs : gpc[e] = "unlaunched"
        /\ pc = "returned" => (retErr = ctxAtCall /\ retNil)

C4_Witness ==
    /\ pc = "returned"
    /\ ctxAtCall = "Canceled"
    /\ Entries(snapshot) # {}
    /\ retErr = "Canceled"

\* C5: when the deadline expired during collection while a collector had not
\* finished, the error returned is context.DeadlineExceeded.
C5_TimeoutReported ==
    (pc = "returned" /\ expiredMid) => retErr = "DeadlineExceeded"

\* C6: when one collector panics and all others complete normally, the
\* gather returns the error together with the other collectors' metrics.
C6_PanicKeepsOthers ==
    \A p \in IDs :
        ( /\ pc = "returned"
          /\ retErr = "panic"
          /\ Panicked(p)
          /\ \A e \in Entries(snapshot) \ {p} : gpc[e] = "exited"
          /\ \E e \in Entries(snapshot) \ {p} : emitted[e] > 0 )
        => /\ ~retNil
           /\ \A e \in Entries(snapshot) \ {p} : retFams[e] = emitted[e]

\* C7: a gather cut short by the deadline returns the families accumulated
\* so far together with the timeout error.
C7_TimeoutPartialResults ==
    ( /\ pc = "returned"
      /\ expiredMid
      /\ retErr = "DeadlineExceeded"
      /\ \E e \in IDs : fams[e] > 0 )
    => (~retNil /\ retFams = fams)

\* C8: GatherWithContext never returns a nil error after a collector of
\* that gather has panicked.
C8_PanicErrorReturned ==
    (pc = "returned" /\ \E e \in IDs : Panicked(e)) => retErr # "nil"

C8_Witness ==
    /\ pc = "returned"
    /\ ctxErr = "nil"
    /\ \E e \in IDs : Panicked(e)
    /\ retErr = "panic"

\* C9: once every Inc / Add call on the counter has returned, Get() is the
\* exact sum of the increments of all calls.
C9_NoLostUpdate ==
    (\A w \in Workers : cPc[w] = "idle") => CounterGet = cSum

\* C10: while a Gather is doing collection work (collector goroutines are
\* running, an inner gatherer is being called) it holds no lock of the
\* registry, so Register, Unregister and Deregister are not kept waiting.
C10_LockOnlyWhileCopying ==
    /\ Collecting => muReaders = 0
    /\ mPc = "inner" => mReaders = 0

\* C12: with a concurrency bound N configured, a request that arrived while N
\* requests were being served has been answered 503 in the very step of its
\* arrival: it never waits in any intermediate position, and the gatherer is
\* not invoked for it.
C12_OverloadImmediate503 ==
    \A r \in Reqs :
        (hMaxInFlight > 0 /\ hPc[r] # "idle" /\ hAtArrival[r] >= hMaxInFlight)
            => /\ hPc[r] = "done"
               /\ hStatus[r] = StatusServiceUnavailable
               /\ ~hGatherCalled[r]

\* A request was turned away while another one was still being served.
C12_Witness ==
    \E r \in Reqs : \E q \in Reqs :
        /\ hMaxInFlight > 0
        /\ hAtArrival[r] >= hMaxInFlight
        /\ hStatus[r] = StatusServiceUnavailable
        /\ hPc[q] = "gathering"
        /\ hHolds[q]

\* C13: a request whose deadline passed before gathering completed is
\* answered 503, not 500 or 200.
C13_TimeoutGives503 ==
    \A r \in Reqs :
        (hPc[r] = "done" /\ hLate[r]) => hStatus[r] = StatusServiceUnavailable

\* The header's value in seconds when it is present, parsable and positive,
\* else 0.
HeaderSeconds(h) == IF h \in {"2", "5"} THEN ParseFloat(h).seconds ELSE 0
Smaller(a, b) == IF a < b THEN a ELSE b

\* C14: the request's deadline is the smaller of the configured timeout and
\* the header value when both are positive, and the configured timeout alone
\* when the header is absent, unparsable or non-positive.
C14_SmallerTimeout ==
    \A r \in Reqs :
        hPc[r] \in {"arrived", "gathering", "returned"} =>
            /\ (hTimeout > 0 /\ HeaderSeconds(hHeader[r]) > 0)
                   => hDeadline[r] = Smaller(hTimeout, HeaderSeconds(hHeader[r]))
            /\ HeaderSeconds(hHeader[r]) = 0 => hDeadline[r] = hTimeout

\* C15: under the continue-on-error policy a gather error is answered with a
\* normal response that holds the gathered families and exactly one synthetic
\* error metric (unless writing the response failed).
C15_ContinueAddsErrorMetric ==
    \A r \in Reqs :
        (hPc[r] = "done" /\ hGatherCalled[r] /\ hErrorHandling = "ContinueOnError"
             /\ hGathered[r].err # "nil" /\ hExit[r] # "encode failure")
            => /\ hStatus[r] = StatusOK
               /\ hBodyFams[r] = hGathered[r].n
               /\ hBodyErrs[r] = 1

\* C16: whatever the interleaving of With / WithLabelValues calls on one
\* vector, at most one primitive has been created and registered per key, and
\* every call for a key has returned that one instance.
C16_OneInstancePerKey ==
    /\ \A p \in vCreated : \A q \in vCreated : p[1] = q[1] => p[2] = q[2]
    /\ vReturned \subseteq vCreated
    /\ vRegistry \subseteq vCreated

\* Both goroutines have finished a call for the one key
\* {code="200",method="GET"}: one created the counter, the other got the
\* cached instance.
C16_Witness ==
    /\ \A w \in Callers : vCalls[w] = 1 /\ vPc[w] = "idle"
    /\ vImpl = "counterVec"
    /\ vCreated = {<<(<<(<<"code", "200">>), (<<"method", "GET">>)>>), 1>>}
    /\ vReturned = vCreated
    /\ vCounters = vCreated

\* C17: the families Gather returned never hold two families with the same
\* name, so a name is bound to at most one metric type.
C17_UniqueFamilyNames ==
    rLast.op = "Gather" =>
        \A s \in rGathered : \A t \in rGathered : s[2] = t[2] => s[1] = t[1]

\* C18: a Register call for a name that is already taken under another metric
\* type returned an error and left the families that existed unchanged.
C18_TypeConflictIsError ==
    (rLast.op = "Register" /\ rLast.conflict) => (rLast.err /\ rLast.kept)

\* C11: while a Gather is in progress, a goroutine that has called Observe
\* and finds no other writer inside the histogram can go on at once: no lock
\* held by the Gather keeps it waiting.
C11_GatherNeverBlocksWriter ==
    \A w \in Observers :
        (hgGatherPc # "idle" /\ hgPc[w] = "lock" /\ hgWriter = 0) => ENABLED ObserveLock(w)

HistQuiescent == \A w \in Observers : hgPc[w] = "idle"
Monotonic(cum) == \A i \in 1 .. (Len(cum) - 1) : cum[i] <= cum[i + 1]
Exposed == ToMetric(hgBucketCounts, hgCount, hgSum)

\* C19: after any sequence of Observe calls the exposed cumulative count of
\* the +Inf bucket equals GetCount() and the cumulative counts never decrease
\* from one bucket to the next; the same holds inside every Metric that
\* ToMetric has built while Observe calls were running.
C19_CumulativeCounts ==
    /\ HistQuiescent =>
           /\ Exposed.buckets[Len(Exposed.buckets)] = GetCount
           /\ Monotonic(Exposed.buckets)
    /\ hgSnap # NoSnapshot =>
           /\ hgSnap.buckets[Len(hgSnap.buckets)] = hgSnap.count
           /\ Monotonic(hgSnap.buckets)

\* Three observations are done, two of them above every boundary, and a
\* Gather has exposed them.
C19_Witness ==
    /\ HistQuiescent
    /\ hgCount = 3
    /\ hgSnap # NoSnapshot
    /\ hgSnap.count = 3
    /\ hgSnap.buckets = <<1, 1, 3>>

\* The bucket an observation belongs to: the one with the lowest boundary
\* that is >= v, or +Inf (the last index) when v exceeds every boundary.
LowestBoundary(v) ==
    LET fit == {b \in SeqRange(hgBuckets) : b >= v}
    IN IF fit = {} THEN 0
       ELSE CHOOSE b \in fit : \A c \in fit : b <= c
BucketOf(v) ==
    IF LowestBoundary(v) = 0 THEN Len(hgBuckets) + 1
    ELSE CHOOSE i \in 1 .. Len(hgBuckets) :
             /\ hgBuckets[i] = LowestBoundary(v)
             /\ \A j \in 1 .. Len(hgBuckets) : hgBuckets[j] = LowestBoundary(v) => i <= j

\* C20: every completed Observe(v) has incremented exactly one raw bucket, the
\* one with the lowest boundary >= v (+Inf when there is none), and the
\* boundaries are exposed in ascending order; with buckets [1, 5], after
\* Observe(0.5), Observe(1.2), Observe(6.0) the exposed cumulative counts are
\* 1, 2, 3, the sum is 7.7 and the count is 3.
C20_ObserveOneBucket ==
    HistQuiescent =>
        /\ \A i \in 1 .. Len(hgBucketCounts) :
               hgBucketCounts[i] =
                   Cardinality({k \in 1 .. Len(hgObserved) : BucketOf(hgObserved[k]) = i})
        /\ \A i \in 1 .. (Len(hgBuckets) - 1) : hgBuckets[i] <= hgBuckets[i + 1]
        /\ hgObserved = <<5, 12, 60>> =>
               /\ hgBuckets = <<10, 50>>
               /\ Exposed.buckets = <<1, 2, 3>>
               /\ Exposed.sum = 77
               /\ Exposed.count = 3

\* The scenario of the claim has run, and Gather has exposed its result.
C20_Witness ==
    /\ HistQuiescent
    /\ hgObserved = <<5, 12, 60>>
    /\ hgBucketCounts = <<1, 1, 1>>
    /\ hgSnap = [buckets |-> <<1, 2, 3>>, count |-> 3, sum |-> 77]

\* C21: the value of a Counter never goes down: after every step of every
\* Inc / Add call Get() is at least what it was before the step.
C21_NeverDecreases == [][CounterGet' >= CounterGet]_vars

\* C22: when one goroutine alone has called Inc / Add, with arguments >= 0,
\* and its last call has returned, Get() (the value Gather exposes) is the
\* arithmetic sum of the increments.
C22_SequentialSum ==
    (/\ \A w \in Workers : cPc[w] = "idle"
     /\ \A w \in Workers \ {1} : cCalls[w] = 0
     /\ ~cNeg)
        => CounterGet = cSum

\* The family registry.Gather builds for a slot whose primitive was never
\* updated: one unlabeled metric; a histogram with the single boundary 1.
TextFamily(slot) ==
    [name |-> <<slot[2]>>, help |-> <<>>, type |-> slot[1],
     metrics |-> << [labels |-> <<>>,
                     value |-> IF slot[1] = "histogram"
                                  THEN [value |-> 0, count |-> 0, sum |-> 0,
                                        buckets |-> << [le |-> 1, cum |-> 0],
                                                       [le |-> PosInf, cum |-> 0] >>]
                                  ELSE Scalar(0)] >>]
TextFamilies(order) == [i \in 1 .. Len(order) |-> TextFamily(order[i])]

\* C23: two Gather calls in a row, with no other call on the registry between
\* them, return slices that EncodeText encodes to the same text.
C23_GatherIdempotent ==
    rRuns = 2 => EncodeText(TextFamilies(rOrder)) = EncodeText(TextFamilies(rPrevOrder))

\* A Gather of the multi-namespace gatherer has returned its families.
MultiReturnedOk == mPc = "returned" /\ mRetErr = "nil"

\* C24: every family a successful Gather returned carries the name
\* <namespace>_<original name> of a family of the gatherer that was registered
\* under that namespace, the prefix applied once.
C24_PrefixedOnce ==
    MultiReturnedOk =>
        \A i \in 1 .. Len(mResult) :
            \E ns \in Present(mSnap) :
                \E j \in 1 .. Len(FamiliesOf(mSnap[ns])) :
                    mResult[i] = <<ns>> \o FamiliesOf(mSnap[ns])[j]

\* Byte order of the name parts of the model: "a" < "b", "err" < "req".
PartRank(p) == IF p \in {"a", "err"} THEN 1 ELSE 2

\* n1 < n2 as strings (the parts are joined by "_", which sorts below the letters).
RECURSIVE NameLess(_, _)
NameLess(n1, n2) ==
    IF n1 = <<>> THEN n2 # <<>>
    ELSE IF n2 = <<>> THEN FALSE
    ELSE IF Head(n1) = Head(n2) THEN NameLess(Tail(n1), Tail(n2))
    ELSE PartRank(Head(n1)) < PartRank(Head(n2))

\* C25: the families a successful Gather of the multi-namespace gatherer
\* returned are in ascending order of their names.
C25_SortedByName ==
    MultiReturnedOk =>
        \A i, j \in 1 .. Len(mResult) : i < j => ~NameLess(mResult[j], mResult[i])

\* C26: a Register for a namespace that holds a gatherer returns an error and
\* the namespace still holds the gatherer it held before the call.
C26_DuplicateNamespaceRejected ==
    (mLast.op = "Register" /\ mLast.had # "none")
        => (mLast.err /\ mGatherers[mLast.ns] = mLast.had)

\* A second Register for an occupied namespace, with another gatherer, has returned.
C26_Witness ==
    /\ mLast.op = "Register"
    /\ mLast.had = "g1"
    /\ mLast.err
    /\ mGatherers[mLast.ns] = "g1"
    /\ \E ns \in Namespaces : mGatherers[ns] = "g2"

\* C27: Deregister returns true exactly when the namespace held a gatherer
\* (and then holds none), and a Gather called after a Deregister of a
\* namespace, with no Register for it since, neither visits that namespace
\* nor returns a family of it.
C27_DeregisterTakesEffect ==
    /\ mLast.op = "Deregister"
          => (mLast.found = (mLast.had # "none") /\ mGatherers[mLast.ns] = "none")
    /\ mPc \in {"loop", "inner", "returned"}
          => \A ns \in mGoneAtCall :
                /\ mSnap[ns] = "none"
                /\ ns \notin mTodo /\ mCur # ns
                /\ mImpl # "multiGatherer"
                      => \A i \in 1 .. Len(mResult) : Head(mResult[i]) # ns

\* A namespace that held a gatherer was deregistered (true was returned), and
\* a Gather called afterwards has returned the families of the other one.
C27_Witness ==
    /\ mLast.op = "Deregister" /\ mLast.found
    /\ mGoneAtCall = {mLast.ns}
    /\ MultiReturnedOk
    /\ mResult # <<>>

\* The decoded families are the encoded ones: the same names, and under each
\* name the same type and the same metrics (label sets and values).
SameFamilies(decoded, families) ==
    /\ DOMAIN decoded = {families[i].name : i \in 1 .. Len(families)}
    /\ \A i \in 1 .. Len(families) :
          /\ decoded[families[i].name].type = families[i].type
          /\ decoded[families[i].name].metrics = families[i].metrics

\* C28: the text EncodeText wrote for a family set, decoded by ParseText,
\* gives back families with the same names, types, label sets and values.
C28_RoundTrip ==
    (tPc = "returned" /\ tBad = 0) => SameFamilies(tParsed, tFamilies)

\* C29: a malformed line in the input never makes ParseText panic, and what
\* ParseText returns is what it returns for the input without that line.
C29_MalformedLineSkipped ==
    tBad # 0 =>
        /\ tPc # "panicked"
        /\ tPc = "returned"
              => tParsed = ParseLines(NoTextFamilies, RemoveAt(tText, tBad)).families

\* The most recent n values of a sequence (all of them when it has fewer).
Recent(s, n) == SubSeq(s, IF Len(s) > n THEN Len(s) - n + 1 ELSE 1, Len(s))

\* C30: after any sequence of Observe calls the reservoir holds the most
\* recent maxSamples observed values (all of them while there are fewer), no
\* more and no fewer, each as often as it was observed among them.
C30_ReservoirHoldsMostRecent ==
    /\ Len(sSamples) = Len(Recent(sObserved, MaxSamples))
    /\ \A v \in SummaryValues :
          Occurrences(sSamples, v) = Occurrences(Recent(sObserved, MaxSamples), v)

\* The reservoir was full and one more Observe has run: the slot that held
\* the oldest sample holds the new value, a different one, and the others
\* are as they were.
C30_Witness ==
    /\ Len(sObserved) = MaxSamples + 1
    /\ Len(sSamples) = MaxSamples
    /\ sSampleIdx = 1 % MaxSamples
    /\ sSamples[1] = sObserved[MaxSamples + 1]
    /\ sSamples[1] # sObserved[1]
    /\ \A i \in 2 .. MaxSamples : sSamples[i] = sObserved[i]

\* C31: a With(labels) call and a WithLabelValues(values...) call that denote
\* the same assignment of values to label names resolve to the same key, and
\* any two finished calls that denote the same assignment returned the same
\* child.
C31_SameAssignmentSameChild ==
    /\ \A labels \in LabelsArgs : \A values \in ValuesArgs :
           labels = labelsFromValues(vLabelNames, values)
               => WithKey(vImpl, labels) = WithLabelValuesKey(vImpl, values)
    /\ \A a \in vResolved : \A b \in vResolved : a[2] = b[2] => a[3] = b[3]

\* One goroutine asked With({method: GET}) and the other WithLabelValues("GET")
\* on a highPerfCounterVec: both hold child 1.
C31_Witness ==
    /\ vImpl = "highPerfCounterVec"
    /\ \E f \in LabelsArgs :
           /\ DOMAIN f = {"method"}
           /\ f["method"] = "GET"
           /\ vResolved = {<<"With", f, 1>>, <<"WithLabelValues", f, 1>>}

\* C32: no call whose labels hold an invalid name, or whose label names are
\* not exactly the declared ones, has returned a child.
C32_InvalidLabelsRejected ==
    \A r \in vResolved : ValidateLabels(r[2]) /\ DOMAIN r[2] = NameSet(vLabelNames)

\* C33: Unregister(c) returns true exactly when the registry holds c at the
\* call; once it has returned true for c (and c was not registered again), no
\* Gather copies an entry of c and a further Unregister(c) returns false.
C33_UnregisterRemoves ==
    /\ pLast.op = "Unregister" => (pLast.ok <=> pLast.c \in Registered(pLast.before))
    /\ pLast.op = "Gather" => pLast.gone \cap Registered(pLast.before) = {}
    /\ (pLast.op = "Unregister" /\ pLast.c \in pLast.gone) => ~pLast.ok

\* C34: in pedantic mode a Register of a collector that describes a
\* descriptor some registered collector describes returns an error and
\* leaves the registry as it was.
C34_PedanticRejectsDuplicate ==
    (pPedantic /\ pLast.op = "Register" /\ DescriptorClash(pLast.before, pLast.c))
        => (~pLast.ok /\ pCollectors = pLast.before)

\* counter1 is registered in a pedantic registry and was offered again: the
\* second Register failed and the registry holds the one entry.
C34_Witness ==
    /\ pPedantic
    /\ pLast.op = "Register" /\ pLast.c = "counter1" /\ ~pLast.ok
    /\ pCollectors = [NoPedEntries EXCEPT ![0] = "counter1"]
    /\ pNextID = 1

\* C35: neither GatherWithContext nor a goroutine it started has sent on a
\* closed channel or closed a channel a second time.
C35_NoClosedChannelOp ==
    crashed \notin {"send on closed channel", "close of closed channel", "send on closed errCh"}

\* The goroutine of entry e, its forwarder and the waiter have ended (or were
\* never started).
Terminated(e) ==
    /\ gpc[e] \in {"unlaunched", "exited", "panicked"}
    /\ fpc[e] \in {"none", "exited", "returned"}

\* C36: when GatherWithContext has returned, every Collect call has returned
\* and no goroutine of the gather can take a step any more (the context is
\* done, so nothing will wake one up), every goroutine the gather started has
\* ended: none is left blocked on a channel.
C36_GoroutinesTerminate ==
    ( /\ Alive
      /\ pc = "returned"
      /\ \A e \in IDs : gpc[e] # "collecting"
      /\ ~ENABLED InternalNext
      /\ ~ENABLED ContextNext )
    => /\ \A e \in IDs : Terminated(e)
       /\ wpc \in {"none", "exited"}

\* C37: when GatherWithContext has returned a nil error, the families it
\* returned hold, for every entry, as many metrics as that collector sent:
\* none is missing and none is there twice.
C37_NothingLostOnSuccess ==
    (pc = "returned" /\ retErr = "nil")
        => (~retNil /\ \A e \in IDs : retFams[e] = emitted[e])

\* Two collectors have each sent a metric and the gather returned both with a
\* nil error.
C37_Witness ==
    /\ pc = "returned"
    /\ retErr = "nil"
    /\ Cardinality(Entries(snapshot)) = 2
    /\ \A e \in Entries(snapshot) : emitted[e] = 1 /\ retFams[e] = 1

\* The mutexes, in the order vector, registry, child.
LockRank(l) == CASE l = "vec" -> 1 [] l = "reg" -> 2 [] OTHER -> 3
\* The mutexes goroutine g holds.
LocksHeld(g) ==
    (IF lVecMu = g THEN {"vec"} ELSE {})
        \cup (IF lRegWriter = g \/ g \in lRegReaders THEN {"reg"} ELSE {})
        \cup (IF \E k \in LockKeys : lPrimWriter[k] = g \/ g \in lPrimReaders[k]
              THEN {"prim"} ELSE {})
\* The mutex goroutine g is asking for, if any.
LocksWanted(g) ==
    CASE lPc[g] = "vecWait" -> {"vec"}
      [] lPc[g] \in {"withRegWait", "registerWait", "gatherWait"} -> {"reg"}
      [] lPc[g] \in {"observeWait", "toMetricWait"} -> {"prim"}
      [] OTHER -> {}

\* C38: while some goroutine is inside a With, Observe, Register or Gather
\* call, some goroutine inside a call can take its next step (no deadlock),
\* and a goroutine that asks for a mutex holds only mutexes that come
\* earlier in the order vector, registry, child.
C38_NoDeadlockLockOrder ==
    /\ (\E g \in Lockers : lPc[g] # "idle") => ENABLED LockProgress
    /\ \A g \in Lockers : \A w \in LocksWanted(g) : \A h \in LocksHeld(g) :
           LockRank(h) < LockRank(w)

\* A With call holds v.mu and waits for hpr.mu, which a Gather holds for
\* reading; the Gather waits for the mutex of child "a", which an Observe is
\* waiting to write-lock.
C38_Witness ==
    \E g1 \in Lockers : \E g2 \in Lockers : \E g3 \in Lockers :
        /\ lPc[g1] = "withRegWait" /\ lVecMu = g1
        /\ lPc[g2] = "toMetricHeld" /\ g2 \in lRegReaders /\ lKey[g2] = "a"
        /\ lPc[g3] = "observeWait" /\ lKey[g3] = "a"

\* C39: a Gather has read every counter NewCounter ever returned, with the
\* value the counter has: no returned counter has dropped out of the output.
C39_HandlesStayExposed ==
    xLast = "Gather" =>
        \A h \in HandleIds : h < xNext => <<xName[h], h, xValue[h]>> \in xGathered

\* Requests that have been admitted and whose handler function has not ended.
InFlight == {r \in Reqs : hPc[r] \in {"arrived", "gathering", "returned"}}

\* C40: with a bound N configured, the tokens in the limiter are exactly the
\* requests in flight (each admitted request gave its token back once, on
\* whatever path its handler ended), and a request that arrived while fewer
\* than N tokens were taken was admitted.
C40_SlotReleasedOnExit ==
    hMaxInFlight > 0 =>
        /\ hLimiter = Cardinality(InFlight)
        /\ \A r \in Reqs : hHolds[r] <=> r \in InFlight
        /\ \A r \in Reqs :
               (hPc[r] # "idle" /\ hAtArrival[r] < hMaxInFlight) => hExit[r] # "rejected"

\* With N = 1: one request ended by panic(err), and the request that arrived
\* afterwards found the slot free and was admitted.
C40_Witness ==
    /\ hMaxInFlight = 1
    /\ \E q \in Reqs : \E r \in Reqs :
           /\ hExit[q] = "panic"
           /\ hPc[r] = "arrived" /\ hHolds[r] /\ hAtArrival[r] = 0

====
